---- MODULE Spec2Model ----
(***************************************************************************)
(* Admin panel for the CRM: session store, current-user context, route     *)
(* guard chain and sidebar (SpecGuard, SpecSession), the payment-gateways  *)
(* page and its settings modal (SpecGateways, SpecModal), the tenant       *)
(* projection and the tenant handlers (SpecProjector, SpecTenants), the    *)
(* revenue report (SpecMonths, SpecReports, SpecReload), the system       *)
(* settings page with the audit log (SpecSettings), the subscriptions page *)
(* and, under fairness of the API calls, the pages together (SpecPages).   *)
(***************************************************************************)
EXTENDS Integers, Sequences, FiniteSets, TLC

VARIABLES
    \* ---- session store, user context, router (App.tsx, UserContext, ProtectedRoute)
    accessToken,        \* localStorage 'accessToken' present
    refreshToken,       \* localStorage 'refreshToken' present
    lsIsAuthenticated,  \* localStorage 'isAuthenticated' present
    ssIsAuthenticated,  \* sessionStorage 'isAuthenticated' === 'true'
    isAuthenticated,    \* App: useState isAuthenticated
    user,               \* UserProvider: useState user (NoUser = null)
    loading,            \* UserProvider: useState loading
    userFetches,        \* getCurrentUserAPI calls in flight
    location,           \* router location: [pathname, state]
    isLoadingTenants,   \* App: useState isLoadingTenants
    tenantFetches,      \* loadTenants joins in flight
    revenueLoading,     \* RevenueReports: useState isLoading
    revenueFetches,     \* getPaymentsAPI calls of loadRevenueData in flight
    mrrData,            \* RevenueReports: useState mrrData
    lastSettled,        \* the handler the last step completed: [call, authFailure]
    \* ---- payment gateways page (PaymentGateways.tsx, GatewaySettingsModal.tsx)
    backend,            \* the REST API's gateways: id -> [enabled, status]
    gateways,           \* PaymentGateways: useState gateways (id -> [enabled, status])
    gwIsLoading,        \* PaymentGateways: useState isLoading
    confirmToggle,      \* PaymentGateways: useState confirmToggle (NoToggle = null)
    isSettingsModalOpen,\* PaymentGateways: useState isSettingsModalOpen
    selectedGateway,    \* PaymentGateways: useState selectedGateway (NoGateway = null)
    gwPc,               \* position of the running handler of the gateways page
    gwOp,               \* the running (or last) handler's arguments and API calls,
                        \* kept until the next click on a card
    \* ---- gateway settings modal (GatewaySettingsModal.tsx)
    formData,           \* useState formData: the fields holding a non-empty value
    formEnvironment,    \* formData.environment
    testStatus,         \* useState testStatus
    testPassed,         \* useState testPassed
    testsInFlight,      \* testPaymentGatewayConnectionAPI calls in flight
    staleTests,         \* those of them sent with credentials the form has replaced
    effectDeps,         \* [gateway, isOpen] at the last run of the modal's effect
    \* ---- tenants (App.tsx, Tenants page) and what the REST API holds for them
    tenants,            \* App: useState tenants
    tenantJoins,        \* the responses of the loadTenants joins in flight
    tenantOps,          \* the tenant handlers of App that are running
    companies,          \* the API's companies, in the order it returns them
    subscriptions,      \* the API's subscriptions, in the order it returns them
    language,           \* useI18n: the UI language
    now,                \* the clock: new Date()
    \* ---- reports page (Reports.tsx) and the payments of the REST API
    filters,            \* Reports: useState filters (NoDate = '')
    payments,           \* the API's payments, in the order it returns them
    \* ---- audit log (AuditLogContext.tsx) and system settings (SystemSettings.tsx)
    logs,               \* AuditLogProvider: useState logs, newest first: the
                        \* entries of the tenant, backup and plan handlers (those
                        \* of the gateways page are left out)
    logsLoading,        \* the getSystemAuditLogsAPI call of the mount is in flight
    savedTab,           \* localStorage 'systemSettings.activeTab' (NoTab = null)
    activeSetting,      \* SystemSettings: useState activeSetting
    settingsDeps,       \* [canSeeLimitedAdmins, activeSetting] at the last run of
                        \* the effects of SystemSettings
    backupStatus,       \* SecurityBackups: useState backupStatus
    restoringId,        \* SecurityBackups: useState restoringId (NoBackup = null)
    backupCalls,        \* the API calls of SecurityBackups in flight: [api, live],
                        \* live while the instance that made the call is mounted
    \* ---- subscriptions page (Subscriptions.tsx)
    isSavingPlan,       \* Subscriptions: useState isSavingPlan
    isDeletingPlan,     \* Subscriptions: useState isDeletingPlan
    planCalls           \* the awaits of handleSavePlan and handleDeletePlan in
                        \* flight: [handler, api]

sessionVars == <<accessToken, refreshToken, lsIsAuthenticated, ssIsAuthenticated,
                 isAuthenticated, user, loading, userFetches, location,
                 isLoadingTenants, tenantFetches, revenueLoading, revenueFetches,
                 lastSettled, tenants, tenantJoins, tenantOps, mrrData>>
gatewayVars == <<backend, gateways, gwIsLoading, confirmToggle, isSettingsModalOpen,
                 selectedGateway, gwPc, gwOp>>
modalVars == <<formData, formEnvironment, testStatus, testPassed, testsInFlight, staleTests,
               effectDeps>>
\* what the handlers of one component leave alone
apiTenantVars == <<companies, subscriptions, language, now>>
settingsVars == <<logs, logsLoading, savedTab, activeSetting, settingsDeps,
                  backupStatus, restoringId, backupCalls>>
reportInputs == <<filters, payments>>
planVars == <<isSavingPlan, isDeletingPlan, planCalls>>
nonSessionVars == <<gatewayVars, modalVars, apiTenantVars, reportInputs, settingsVars, planVars>>
nonGatewayVars == <<sessionVars, modalVars, apiTenantVars, reportInputs, settingsVars, planVars>>
nonModalVars == <<sessionVars, gatewayVars, apiTenantVars, reportInputs, settingsVars, planVars>>
nonSettingsVars == <<sessionVars, gatewayVars, modalVars, apiTenantVars, reportInputs,
                     planVars>>
vars == <<sessionVars, gatewayVars, modalVars, apiTenantVars, reportInputs, settingsVars, planVars>>

----------------------------------------------------------------------------
(* Bounds *)

\* profiles generated for the limited admin: at most this many flags differ
\* from the all-false or from the all-true profile
MaxFlagsDiffer == 1
\* concurrent calls of one API endpoint in flight
MaxFetches == 2

----------------------------------------------------------------------------
(* Permission resolver *)

Capabilities ==
    {"can_view_dashboard", "can_manage_tenants", "can_manage_subscriptions",
     "can_manage_payment_gateways", "can_view_reports", "can_manage_communication",
     "can_manage_settings", "can_manage_limited_admins"}

NoUser == [none |-> "user"]
NoProfile == [none |-> "limited_admin"]

PermissionSets ==
    {f \in [Capabilities -> BOOLEAN] :
        \/ Cardinality({c \in Capabilities : f[c]}) <= MaxFlagsDiffer
        \/ Cardinality({c \in Capabilities : ~f[c]}) <= MaxFlagsDiffer}

LimitedAdmins == [is_active : BOOLEAN, permissions : PermissionSets]

Users == [is_superuser : BOOLEAN, limited_admin : LimitedAdmins \cup {NoProfile}]

hasPermissionNoSuperuser(u, permission) ==
    IF u = NoUser THEN FALSE
    ELSE IF u.limited_admin # NoProfile
         THEN u.limited_admin.permissions[permission]
         ELSE FALSE

hasPermissionFailOpen(u, permission) ==
    IF u = NoUser THEN TRUE
    ELSE IF u.is_superuser THEN TRUE
    ELSE IF u.limited_admin # NoProfile
         THEN u.limited_admin.permissions[permission]
         ELSE TRUE

hasPermission(u, permission) ==
    IF u = NoUser THEN FALSE
    ELSE IF u.is_superuser THEN TRUE
    ELSE IF u.limited_admin # NoProfile
         THEN u.limited_admin.permissions[permission]
         ELSE FALSE

isSuperAdmin(u) == IF u = NoUser THEN FALSE ELSE u.is_superuser

----------------------------------------------------------------------------
(* Routes, guards and sidebar *)

GuardedPaths == {"/dashboard", "/tenants", "/subscriptions", "/payment-gateways",
                 "/reports", "/communication", "/settings"}
Paths == GuardedPaths \cup {"/login", "/", "/unknown"}

NoState == "none"

\* App (Routes): the permission each guarded route passes to PermissionGuard
RoutePermission(path) ==
    CASE path = "/dashboard" -> "can_view_dashboard"
      [] path = "/tenants" -> "can_manage_tenants"
      [] path = "/subscriptions" -> "can_manage_subscriptions"
      [] path = "/payment-gateways" -> "can_manage_payment_gateways"
      [] path = "/reports" -> "can_view_reports"
      [] path = "/communication" -> "can_manage_communication"
      [] path = "/settings" -> "can_manage_settings"

SidebarPermissionSwapped(path) ==
    CASE path = "/dashboard" -> "can_view_dashboard"
      [] path = "/tenants" -> "can_manage_tenants"
      [] path = "/subscriptions" -> "can_manage_subscriptions"
      [] path = "/payment-gateways" -> "can_manage_subscriptions"
      [] path = "/reports" -> "can_view_reports"
      [] path = "/communication" -> "can_manage_communication"
      [] path = "/settings" -> "can_manage_settings"

\* Sidebar: allMenuItems and canAccessSettings
SidebarPermission(path) ==
    CASE path = "/dashboard" -> "can_view_dashboard"
      [] path = "/tenants" -> "can_manage_tenants"
      [] path = "/subscriptions" -> "can_manage_subscriptions"
      [] path = "/payment-gateways" -> "can_manage_payment_gateways"
      [] path = "/reports" -> "can_view_reports"
      [] path = "/communication" -> "can_manage_communication"
      [] path = "/settings" -> "can_manage_settings"

\* Sidebar: canAccess
canAccess(u, permission) == isSuperAdmin(u) \/ hasPermission(u, permission)

\* Sidebar: the entry of `path` is among menuItems (or is the settings link)
SidebarShows(u, path) == canAccess(u, SidebarPermission(path))

Page(path) == [kind |-> "page", to |-> path, state |-> NoState]
Redirect(path, st) == [kind |-> "redirect", to |-> path, state |-> st]
Loader == [kind |-> "loader", to |-> "", state |-> NoState]
LoginPage == [kind |-> "login", to |-> "", state |-> NoState]

PermissionGuardRendersAnyway(permission, children) ==
    IF loading THEN Loader ELSE children

PermissionGuard(permission, children) ==
    IF loading THEN Loader
    ELSE IF isSuperAdmin(user) \/ hasPermission(user, permission) THEN children
    ELSE Redirect("/dashboard", NoState)

\* ProtectedRoute: the signal it reads from storage
StorageAuthenticated == accessToken \/ ssIsAuthenticated

ProtectedRouteTokenOnly(children) ==
    IF ~accessToken THEN Redirect("/login", NoState)
    ELSE children

ProtectedRoute(children) ==
    IF ~StorageAuthenticated THEN Redirect("/login", NoState)
    ELSE children

\* App (Routes): the element rendered for a pathname
RouteElement(path) ==
    IF path = "/login"
    THEN (IF isAuthenticated THEN Redirect("/dashboard", NoState) ELSE LoginPage)
    ELSE IF path \in GuardedPaths
    THEN ProtectedRoute(PermissionGuard(RoutePermission(path), Page(path)))
    ELSE Redirect("/dashboard", NoState)

View == RouteElement(location.pathname)

----------------------------------------------------------------------------
(* Error classification *)

\* error.message, as the words it is made of
Messages == {<<>>, <<"Forbidden">>, <<"HTTP", "403">>, <<"Session expired">>,
             <<"401">>, <<"Unauthorized">>, <<"Network", "Error">>,
             <<"Request", "failed", "500">>}

includes(message, word) == \E i \in 1..Len(message) : message[i] = word

\* loadTenants (catch): the test of the error message
IsAuthError(message) ==
    \/ includes(message, "Forbidden") \/ includes(message, "403")
    \/ includes(message, "Session expired") \/ includes(message, "401")
    \/ includes(message, "Unauthorized")

Ok == [ok |-> TRUE, message |-> <<>>]
Failed(message) == [ok |-> FALSE, message |-> message]
Outcomes == {Ok} \cup {Failed(m) : m \in Messages}

\* what the last step completed: which handler, and whether its API call failed
\* with an authentication/authorization error
NothingSettled == [call |-> "none", authFailure |-> FALSE]
Settled(call, outcome) ==
    [call |-> call, authFailure |-> (~outcome.ok /\ IsAuthError(outcome.message))]

----------------------------------------------------------------------------
(* Tenant status projector *)

NoSubscription == [id |-> 0, company |-> 0, is_active |-> FALSE, start_date |-> 0,
                   end_date |-> 0, plan |-> 0]
NoDate == -1

\* the plans the API holds: plan 1 has no Arabic name, plan 2 has one
plans == <<[id |-> 1, name |-> "Basic", name_ar |-> " "],
           [id |-> 2, name |-> "Pro", name_ar |-> "Pro (ar)"]>>

\* what getCompaniesAPI and getSubscriptionsAPI return now, the language of the
\* render whose loadTenants is called, and the running handler that awaits the
\* join (0: none)
apiResponses == [companies |-> companies, subscriptions |-> subscriptions,
                 language |-> language, caller |-> 0]

RECURSIVE subscriptionMapLastSeen(_)
subscriptionMapLastSeen(subs) ==
    IF subs = <<>> THEN <<>>
    ELSE LET map == subscriptionMapLastSeen(SubSeq(subs, 1, Len(subs) - 1))
             sub == subs[Len(subs)]
         IN IF sub.is_active /\ (sub.company \notin DOMAIN map
                                  \/ sub.end_date >= map[sub.company].end_date)
            THEN [c \in DOMAIN map \cup {sub.company} |->
                     IF c = sub.company THEN sub ELSE map[c]]
            ELSE map

\* loadTenants: subscriptionMap after the forEach over the subscriptions;
\* dates are timestamps, a missing end_date reads as 0
RECURSIVE subscriptionMap(_)
subscriptionMap(subs) ==
    IF subs = <<>> THEN <<>>
    ELSE LET map == subscriptionMap(SubSeq(subs, 1, Len(subs) - 1))
             sub == subs[Len(subs)]
         IN IF sub.is_active /\ (sub.company \notin DOMAIN map
                                  \/ sub.end_date > map[sub.company].end_date)
            THEN [c \in DOMAIN map \cup {sub.company} |->
                     IF c = sub.company THEN sub ELSE map[c]]
            ELSE map

\* new Date(x).toISOString().split('T')[0]: the day of a timestamp (two per day)
ToISODate(timestamp) == timestamp \div 2

statusByEndDateOnly(subscription) ==
    IF subscription.end_date < now THEN "Expired" ELSE "Active"

\* loadTenants: the status of a company whose subscriptionMap entry is given
tenantStatus(subscription) ==
    IF subscription = NoSubscription THEN "Deactivated"
    ELSE IF ~subscription.is_active THEN "Deactivated"
    ELSE IF subscription.end_date < now THEN "Expired" ELSE "Active"

\* loadTenants: the tenant projected from one company
mappedTenant(company, map, plansFound, lang) ==
    LET subscription == IF company.id \in DOMAIN map THEN map[company.id]
                        ELSE NoSubscription
        plan == {p \in plansFound : p.id = subscription.plan}
    IN [id |-> company.id,
        name |-> company.name,
        currentPlan |->
            IF subscription.plan = 0 THEN ""
            ELSE IF plan = {} THEN "plan_name"
            ELSE LET p == CHOOSE q \in plan : TRUE
                 IN IF lang = "ar" /\ p.name_ar # " " THEN p.name_ar ELSE p.name,
        status |-> tenantStatus(subscription),
        startDate |->
            IF subscription.start_date # 0 THEN ToISODate(subscription.start_date)
            ELSE IF company.created_at # 0 THEN ToISODate(company.created_at)
            ELSE NoDate,
        endDate |->
            IF subscription.end_date # 0 THEN ToISODate(subscription.end_date)
            ELSE NoDate]

\* loadTenants: mappedTenants, from the responses of one join
mappedTenants(responses) ==
    [i \in 1..Len(responses.companies) |->
        mappedTenant(responses.companies[i], subscriptionMap(responses.subscriptions),
                     {plans[k] : k \in 1..Len(plans)}, responses.language)]

----------------------------------------------------------------------------
(* Revenue report: month sequence and revenue buckets *)

\* A Date is a timestamp of two ticks per day and two days per month; a filter
\* date is the number of a day, NoDate the empty string or a missing value.

\* date.getFullYear() and date.getMonth(): the month of a timestamp
getMonth(date) == date \div 4
\* new Date(year, month, 1)
firstOfMonth(month) == 4 * month
\* parseDateValue: nothing for an empty value, else midnight of the day
parseDateValue(value) == IF value = NoDate THEN NoDate ELSE 2 * value

\* buildMonthSequence: the while loop
RECURSIVE pushMonths(_, _, _, _)
pushMonths(sequence, cursor, guard, normalizedEnd) ==
    IF cursor <= normalizedEnd /\ guard < 60
    THEN pushMonths(Append(sequence, cursor), firstOfMonth(getMonth(cursor) + 1),
                    guard + 1, normalizedEnd)
    ELSE sequence

buildMonthSequenceUncapped(f) ==
    LET startDate == IF parseDateValue(f.fromDate) = NoDate
                     THEN firstOfMonth(getMonth(now) - 11)
                     ELSE parseDateValue(f.fromDate)
        endDate == IF parseDateValue(f.toDate) = NoDate
                   THEN firstOfMonth(getMonth(now))
                   ELSE parseDateValue(f.toDate)
        normalizedStart == firstOfMonth(getMonth(startDate))
        normalizedEnd == firstOfMonth(getMonth(endDate))
    IN IF normalizedStart > normalizedEnd THEN <<normalizedStart>>
       ELSE pushMonths(<<>>, normalizedStart, 0, normalizedEnd)

\* Reports.tsx: buildMonthSequence
buildMonthSequence(f) ==
    LET defaultStart == firstOfMonth(getMonth(now) - 11)
        defaultEnd == firstOfMonth(getMonth(now))
        startDate == IF parseDateValue(f.fromDate) = NoDate THEN defaultStart
                     ELSE parseDateValue(f.fromDate)
        endDate == IF parseDateValue(f.toDate) = NoDate THEN defaultEnd
                   ELSE parseDateValue(f.toDate)
        normalizedStart == firstOfMonth(getMonth(startDate))
        normalizedEnd == firstOfMonth(getMonth(endDate))
        looped == pushMonths(<<>>, normalizedStart, 0, normalizedEnd)
        sequence == IF Len(looped) = 0 THEN <<normalizedEnd>> ELSE looped
    IN IF normalizedStart > normalizedEnd THEN <<normalizedStart>>
       ELSE IF Len(sequence) > 12
       THEN SubSeq(sequence, Len(sequence) - 12 + 1, Len(sequence))
       ELSE sequence

\* getRangeBounds: start of the first day and end of the last day
getRangeBounds(f) ==
    [start |-> parseDateValue(f.fromDate),
     end |-> IF parseDateValue(f.toDate) = NoDate THEN NoDate
             ELSE parseDateValue(f.toDate) + 1]

\* loadRevenueData: isWithinRange
isWithinRange(value, f) ==
    LET range == getRangeBounds(f)
    IN IF value = NoDate THEN TRUE
       ELSE IF range.start # NoDate /\ value < range.start THEN FALSE
       ELSE IF range.end # NoDate /\ value > range.end THEN FALSE
       ELSE TRUE

\* loadRevenueData: isSuccessful
isSuccessful(payment_status) == payment_status \in {"successful", "Success"}

\* a Number: binary floating point, rounded to the nearest value, ties to the
\* even mantissa; the model keeps 3 bits of mantissa where a double keeps 53
fl(x) ==
    IF x < 8 THEN x
    ELSE LET scale == CHOOSE s \in {2, 4, 8, 16, 32, 64, 128, 256, 512} :
                          x \div s \in 4..7
             q == x \div scale
             r == x % scale
         IN IF 2 * r < scale THEN q * scale
            ELSE IF 2 * r > scale THEN (q + 1) * scale
            ELSE (IF q % 2 = 0 THEN q ELSE q + 1) * scale

\* loadRevenueData: what payments.forEach adds to the bucket of one key, each
\* amount taken times the factor: monthData.MRR += amount (factor 1),
\* monthData.ARR += amount * 12 (factor 12)
RECURSIVE bucketTotal(_, _, _, _)
bucketTotal(paid, key, f, factor) ==
    IF paid = <<>> THEN 0
    ELSE LET payment == paid[Len(paid)]
             before == bucketTotal(SubSeq(paid, 1, Len(paid) - 1), key, f, factor)
         IN IF /\ isSuccessful(payment.payment_status)
               /\ isWithinRange(payment.created_at, f)
               /\ payment.created_at # NoDate
               /\ getMonth(payment.created_at) = key
            THEN fl(before + fl(fl(payment.amount) * factor))
            ELSE before

\* loadRevenueData: revenueByMonth without its keys, as passed to setMrrData
revenueByMonth(paid, f) ==
    LET monthSequence == buildMonthSequence(f)
    IN [i \in 1..Len(monthSequence) |->
           [month |-> getMonth(monthSequence[i]) % 12,
            MRR |-> bucketTotal(paid, getMonth(monthSequence[i]), f, 1),
            ARR |-> bucketTotal(paid, getMonth(monthSequence[i]), f, 12)]]

----------------------------------------------------------------------------
(* Session store, user context and router: operations *)

\* session users: the outcomes of getCurrentUserAPI in SpecSession
AllFalse == [c \in Capabilities |-> FALSE]
SessionUsers ==
    {[is_superuser |-> TRUE, limited_admin |-> NoProfile],
     [is_superuser |-> FALSE, limited_admin |-> NoProfile],
     [is_superuser |-> FALSE,
      limited_admin |-> [is_active |-> TRUE,
                         permissions |-> [AllFalse EXCEPT !["can_view_reports"] = TRUE,
                                                          !["can_view_dashboard"] = TRUE]]]}

\* The application is constructed at `path` with the storage as given:
\* App's isAuthenticated initial state, UserProvider's mount effect and
\* App's effect on isAuthenticated.
Mount(path, tok, ss, step) ==
    /\ isAuthenticated' = (tok \/ ss)
    /\ user' = NoUser
    /\ loading' = tok
    /\ userFetches' = IF tok THEN 1 ELSE 0
    /\ location' = [pathname |-> path, state |-> NoState]
    /\ isLoadingTenants' = (tok \/ ss)
    /\ tenantFetches' = IF tok \/ ss THEN 1 ELSE 0
    /\ tenants' = <<>>
    /\ tenantJoins' = IF tok \/ ss THEN <<apiResponses>> ELSE <<>>
    /\ tenantOps' = <<>>
    /\ revenueLoading' = FALSE
    /\ revenueFetches' = 0
    /\ mrrData' = <<>>
    /\ lastSettled' = step

InitSessionVars ==
    /\ accessToken \in BOOLEAN
    /\ refreshToken = accessToken
    /\ lsIsAuthenticated \in BOOLEAN
    /\ ssIsAuthenticated \in BOOLEAN
    /\ isAuthenticated = (accessToken \/ ssIsAuthenticated)
    /\ user = NoUser
    /\ loading = accessToken
    /\ userFetches = (IF accessToken THEN 1 ELSE 0)
    /\ location \in [pathname : Paths, state : {NoState}]
    /\ isLoadingTenants = (accessToken \/ ssIsAuthenticated)
    /\ tenantFetches = (IF accessToken \/ ssIsAuthenticated THEN 1 ELSE 0)
    /\ tenants = <<>>
    /\ tenantJoins = (IF accessToken \/ ssIsAuthenticated THEN <<apiResponses>> ELSE <<>>)
    /\ tenantOps = <<>>
    /\ revenueLoading = FALSE
    /\ revenueFetches = 0
    /\ mrrData = <<>>
    /\ lastSettled = NothingSettled

\* the browser reloads the page at the current pathname
Reload ==
    /\ Mount(location.pathname, accessToken, ssIsAuthenticated, NothingSettled)
    /\ UNCHANGED <<accessToken, refreshToken, lsIsAuthenticated, ssIsAuthenticated>>
    /\ UNCHANGED nonSessionVars

\* the user opens a path (link, sidebar entry or address bar)
NavigateTo(path) ==
    /\ location' = [pathname |-> path, state |-> NoState]
    /\ lastSettled' = NothingSettled
    /\ UNCHANGED <<accessToken, refreshToken, lsIsAuthenticated, ssIsAuthenticated,
                   isAuthenticated, user, loading, userFetches, isLoadingTenants,
                   tenantFetches, tenants, tenantJoins, tenantOps,
                   revenueLoading, revenueFetches, mrrData>>
    /\ UNCHANGED nonSessionVars

\* <Navigate to=... replace /> rendered by a route or a guard takes effect
FollowRedirect ==
    /\ View.kind = "redirect"
    /\ location' = [pathname |-> View.to, state |-> View.state]
    /\ lastSettled' = NothingSettled
    /\ UNCHANGED <<accessToken, refreshToken, lsIsAuthenticated, ssIsAuthenticated,
                   isAuthenticated, user, loading, userFetches, isLoadingTenants,
                   tenantFetches, tenants, tenantJoins, tenantOps,
                   revenueLoading, revenueFetches, mrrData>>
    /\ UNCHANGED nonSessionVars

\* the login page stores the tokens it received (durable storage) or not
StoreTokens(durable) ==
    /\ accessToken' = (accessToken \/ durable)
    /\ refreshToken' = (refreshToken \/ durable)

\* LoginPage reports a successful login: handleLoginSuccess, then App's
\* effect on isAuthenticated starts loadTenants
handleLoginSuccess(durable) ==
    /\ View.kind = "login"
    /\ tenantFetches < MaxFetches
    /\ StoreTokens(durable)
    /\ ssIsAuthenticated' = TRUE
    /\ isAuthenticated' = TRUE
    /\ isLoadingTenants' = TRUE
    /\ tenantFetches' = tenantFetches + 1
    /\ tenantJoins' = Append(tenantJoins, apiResponses)
    /\ lastSettled' = NothingSettled
    /\ UNCHANGED <<lsIsAuthenticated, user, loading, userFetches, location,
                   revenueLoading, revenueFetches, mrrData, tenants, tenantOps>>
    /\ UNCHANGED nonSessionVars

handleLogoutKeepsRefreshToken ==
    /\ View.kind = "page"
    /\ accessToken' = FALSE
    /\ refreshToken' = refreshToken
    /\ lsIsAuthenticated' = FALSE
    /\ ssIsAuthenticated' = FALSE
    /\ Mount("/login", FALSE, FALSE, [call |-> "handleLogout", authFailure |-> FALSE])
    /\ UNCHANGED nonSessionVars

\* the logout dialog is confirmed: handleLogout, then the page reloads at /login
handleLogout ==
    /\ View.kind = "page"
    /\ accessToken' = FALSE
    /\ refreshToken' = FALSE
    /\ lsIsAuthenticated' = FALSE
    /\ ssIsAuthenticated' = FALSE
    /\ Mount("/login", FALSE, FALSE, [call |-> "handleLogout", authFailure |-> FALSE])
    /\ UNCHANGED nonSessionVars

\* some component calls refreshUser: loadUser starts, loading is left as it is
refreshUser ==
    /\ userFetches < MaxFetches
    /\ userFetches' = userFetches + 1
    /\ lastSettled' = NothingSettled
    /\ UNCHANGED <<accessToken, refreshToken, lsIsAuthenticated, ssIsAuthenticated,
                   isAuthenticated, user, loading, location, isLoadingTenants,
                   tenantFetches, tenants, tenantJoins, tenantOps,
                   revenueLoading, revenueFetches, mrrData>>
    /\ UNCHANGED nonSessionVars

\* loadUser: getCurrentUserAPI settles with the user `u` or fails
loadUser(ok, u) ==
    /\ userFetches > 0
    /\ userFetches' = userFetches - 1
    /\ user' = IF ok THEN u ELSE NoUser
    /\ loading' = FALSE
    /\ lastSettled' = NothingSettled
    /\ UNCHANGED <<accessToken, refreshToken, lsIsAuthenticated, ssIsAuthenticated,
                   isAuthenticated, location, isLoadingTenants,
                   tenantFetches, tenants, tenantJoins, tenantOps,
                   revenueLoading, revenueFetches, mrrData>>
    /\ UNCHANGED nonSessionVars

\* Tenants page: onRefresh starts loadTenants
onRefresh ==
    /\ View = Page("/tenants")
    /\ tenantFetches < MaxFetches
    /\ tenantFetches' = tenantFetches + 1
    /\ tenantJoins' = Append(tenantJoins, apiResponses)
    /\ isLoadingTenants' = TRUE
    /\ lastSettled' = NothingSettled
    /\ UNCHANGED <<accessToken, refreshToken, lsIsAuthenticated, ssIsAuthenticated,
                   isAuthenticated, user, loading, userFetches, location,
                   revenueLoading, revenueFetches, mrrData, tenants, tenantOps>>
    /\ UNCHANGED nonSessionVars

\* loadTenants: the join of the three fetches settles (try / catch / finally)
loadTenants(outcome) ==
    /\ tenantFetches > 0
    /\ tenantFetches' = tenantFetches - 1
    /\ \E i \in 1..Len(tenantJoins) :
          /\ tenants' = IF outcome.ok THEN mappedTenants(tenantJoins[i]) ELSE <<>>
          /\ tenantJoins' = SubSeq(tenantJoins, 1, i - 1)
                               \o SubSeq(tenantJoins, i + 1, Len(tenantJoins))
    /\ IF ~outcome.ok /\ IsAuthError(outcome.message)
       THEN /\ accessToken' = FALSE
            /\ refreshToken' = FALSE
            /\ lsIsAuthenticated' = FALSE
            /\ ssIsAuthenticated' = FALSE
            /\ isAuthenticated' = FALSE
            /\ location' = [pathname |-> "/login", state |-> NoState]
       ELSE UNCHANGED <<accessToken, refreshToken, lsIsAuthenticated,
                        ssIsAuthenticated, isAuthenticated, location>>
    /\ isLoadingTenants' = FALSE
    /\ lastSettled' = Settled("loadTenants", outcome)
    /\ UNCHANGED <<user, loading, userFetches, revenueLoading, revenueFetches, mrrData, tenantOps>>
    /\ UNCHANGED nonSessionVars

\* RevenueReports mounts (or its filters change): loadRevenueData starts
loadRevenueDataStart ==
    /\ View = Page("/reports")
    /\ revenueFetches < MaxFetches
    /\ revenueFetches' = revenueFetches + 1
    /\ revenueLoading' = TRUE
    /\ lastSettled' = NothingSettled
    /\ UNCHANGED <<accessToken, refreshToken, lsIsAuthenticated, ssIsAuthenticated,
                   isAuthenticated, user, loading, userFetches, location,
                   isLoadingTenants, tenantFetches, tenants, tenantJoins,
                   tenantOps, mrrData>>
    /\ UNCHANGED nonSessionVars

\* loadRevenueData: getPaymentsAPI settles (try / catch / finally)
loadRevenueData(outcome) ==
    /\ revenueFetches > 0
    /\ revenueFetches' = revenueFetches - 1
    /\ revenueLoading' = FALSE
    /\ mrrData' = IF outcome.ok THEN revenueByMonth(payments, filters) ELSE mrrData
    /\ lastSettled' = Settled("loadRevenueData", outcome)
    /\ UNCHANGED <<accessToken, refreshToken, lsIsAuthenticated, ssIsAuthenticated,
                   isAuthenticated, user, loading, userFetches, location,
                   isLoadingTenants, tenantFetches, tenants, tenantJoins,
                   tenantOps>>
    /\ UNCHANGED nonSessionVars

----------------------------------------------------------------------------
(* Specifications of the session store, the user context and the router *)

\* the gateways page is not mounted
GatewaysUnmounted ==
    /\ backend = <<>>
    /\ gateways = <<>>
    /\ gwIsLoading = FALSE
    /\ confirmToggle = <<>>
    /\ isSettingsModalOpen = FALSE
    /\ selectedGateway = <<>>
    /\ gwPc = "unmounted"
    /\ gwOp = <<>>

\* the API holds no company
NoCompanies ==
    /\ companies = <<>>
    /\ subscriptions = <<>>
    /\ language = "en"
    /\ now = 0

\* the reports page has its default filters and the API holds no payments
NoPayments ==
    /\ filters = [fromDate |-> NoDate, toDate |-> NoDate]
    /\ payments = <<>>

NoTab == "null"
NoBackup == "null"
NoDeps == <<>>

\* the audit log has loaded nothing and the settings page is not rendered
SettingsUnmounted ==
    /\ logs = <<>> /\ logsLoading = FALSE
    /\ savedTab = NoTab /\ activeSetting = "general" /\ settingsDeps = NoDeps
    /\ backupStatus = "idle" /\ restoringId = NoBackup /\ backupCalls = <<>>

\* the subscriptions page is not rendered
PlansUnmounted == isSavingPlan = FALSE /\ isDeletingPlan = FALSE /\ planCalls = {}

\* AuditLogProvider: addLog, the list it sets
addLog(actionKey) == <<[id |-> now, key |-> actionKey]>> \o logs

\* no settings modal is rendered
ModalUnmounted ==
    /\ formData = {}
    /\ formEnvironment = "test"
    /\ testStatus = "idle"
    /\ testPassed = FALSE
    /\ testsInFlight = 0 /\ staleTests = 0
    /\ effectDeps = <<>>

InitGuard ==
    /\ NoCompanies /\ NoPayments /\ InitSessionVars
    /\ GatewaysUnmounted /\ ModalUnmounted /\ SettingsUnmounted
    /\ PlansUnmounted

NextGuard ==
    \/ Reload
    \/ \E path \in Paths : NavigateTo(path)
    \/ FollowRedirect
    \/ \E durable \in BOOLEAN : handleLoginSuccess(durable)
    \/ handleLogout
    \/ refreshUser
    \/ \E u \in Users : loadUser(TRUE, u)
    \/ loadUser(FALSE, NoUser)
    \/ onRefresh
    \/ \E outcome \in Outcomes : loadTenants(outcome)

\* route guards and sidebar, over every user the API can return
SpecGuard == InitGuard /\ [][NextGuard]_vars

InitSession ==
    /\ NoCompanies /\ NoPayments /\ InitSessionVars
    /\ GatewaysUnmounted /\ ModalUnmounted /\ SettingsUnmounted
    /\ PlansUnmounted

NextSession ==
    \/ Reload
    \/ \E path \in Paths : NavigateTo(path)
    \/ FollowRedirect
    \/ \E durable \in BOOLEAN : handleLoginSuccess(durable)
    \/ handleLogout
    \/ refreshUser
    \/ \E u \in SessionUsers : loadUser(TRUE, u)
    \/ loadUser(FALSE, NoUser)
    \/ onRefresh
    \/ \E outcome \in Outcomes : loadTenants(outcome)
    \/ loadRevenueDataStart
    \/ \E outcome \in Outcomes : loadRevenueData(outcome)

\* session lifecycle and the pages' API calls
SpecSession == InitSession /\ [][NextSession]_vars

----------------------------------------------------------------------------
(* Properties of the permission resolver, the guards and the session *)

\* the user is a superuser or the limited-admin profile grants the capability
Entitled(u, capability) ==
    /\ u # NoUser
    /\ \/ u.is_superuser
       \/ /\ u.limited_admin # NoProfile
          /\ u.limited_admin.permissions[capability]

\* C1: on every guarded route, once the user fetch has resolved (loading is
\* false) and the authentication guard has passed, the permission guard renders
\* the page exactly when the user is a superuser or holds the route's
\* capability, and otherwise renders only a redirect to /dashboard.
C1_GuardRendersOnlyIfEntitled ==
    \A path \in GuardedPaths :
        (StorageAuthenticated /\ ~loading) =>
            IF Entitled(user, RoutePermission(path))
            THEN RouteElement(path) = Page(path)
            ELSE RouteElement(path) = Redirect("/dashboard", NoState)

\* C1 witness: a loaded limited admin without can_manage_tenants is on /tenants
\* and gets the redirect to /dashboard.
C1_Witness ==
    /\ location.pathname = "/tenants"
    /\ StorageAuthenticated /\ ~loading /\ userFetches = 0
    /\ user # NoUser /\ ~user.is_superuser /\ user.limited_admin # NoProfile
    /\ ~user.limited_admin.permissions["can_manage_tenants"]
    /\ user.limited_admin.permissions["can_view_dashboard"]
    /\ View = Redirect("/dashboard", NoState)

\* C2: whenever a current-user fetch is in flight, a guarded route whose
\* authentication guard passes shows the full-page loader (neither the page nor
\* a redirect).
C2_LoaderWhileFetchInFlight ==
    \A path \in GuardedPaths :
        (userFetches > 0 /\ StorageAuthenticated) => RouteElement(path) = Loader

\* C3: for a superuser hasPermission is true for every capability, whatever the
\* limited-admin profile holds.
C3_SuperuserHasEveryPermission ==
    \A capability \in Capabilities :
        (user # NoUser /\ user.is_superuser) => hasPermission(user, capability)

\* C3 witness: a superuser whose profile grants nothing has been loaded.
C3_Witness ==
    /\ user # NoUser /\ user.is_superuser
    /\ user.limited_admin # NoProfile
    /\ \A capability \in Capabilities : ~user.limited_admin.permissions[capability]
    /\ ~loading

\* C4: hasPermission fails closed: false with no user, false for a
\* non-superuser without a profile, and exactly the profile's flag for a
\* non-superuser with a profile.
C4_ResolverFailsClosed ==
    \A capability \in Capabilities :
        /\ user = NoUser => ~hasPermission(user, capability)
        /\ (user # NoUser /\ ~user.is_superuser /\ user.limited_admin = NoProfile)
              => ~hasPermission(user, capability)
        /\ (user # NoUser /\ ~user.is_superuser /\ user.limited_admin # NoProfile)
              => (hasPermission(user, capability)
                    <=> user.limited_admin.permissions[capability])

\* C4 witness: the user fetch started with a token has failed, and no user is
\* loaded.
C4_Witness ==
    /\ accessToken /\ userFetches = 0 /\ ~loading
    /\ user = NoUser

\* C5: the authentication guard lets a guarded route through exactly when the
\* access token is in localStorage or sessionStorage holds isAuthenticated =
\* 'true'; otherwise it redirects to /login, and no location ever carries the
\* attempted destination.
C5_AuthGuardPassesIffSignal ==
    /\ \A path \in GuardedPaths :
          IF accessToken \/ ssIsAuthenticated
          THEN RouteElement(path) = PermissionGuard(RoutePermission(path), Page(path))
          ELSE RouteElement(path) = Redirect("/login", NoState)
    /\ location.state = NoState

\* C5 witness: after a login that stored no token, the sessionStorage flag alone
\* lets /reports through to its page.
C5_Witness ==
    /\ location.pathname = "/reports"
    /\ ~accessToken /\ ssIsAuthenticated
    /\ user # NoUser
    /\ View = Page("/reports")

SessionCleared ==
    /\ ~accessToken /\ ~refreshToken
    /\ ~lsIsAuthenticated /\ ~ssIsAuthenticated
    /\ ~isAuthenticated

\* C6: handleLogout leaves no token and no flag in storage and isAuthenticated
\* false; that stays so until a login succeeds, and while it is so every guarded
\* route redirects to /login.
C6_LogoutDestroysSession ==
    [][ /\ handleLogout => SessionCleared'
        /\ (SessionCleared /\ ~(\E durable \in BOOLEAN : handleLoginSuccess(durable)))
              => SessionCleared'
        /\ SessionCleared' =>
              \A path \in GuardedPaths :
                  RouteElement(path)' = Redirect("/login", NoState)
      ]_vars

\* C6 witness: handleLogout has just run on a session that had tokens.
C6_Witness ==
    /\ lastSettled.call = "handleLogout"
    /\ SessionCleared
    /\ View = LoginPage

\* C7: an authentication/authorization failure of a page's API call ends the
\* session: tokens and flags removed, isAuthenticated false, user on /login.
C7_AuthFailureEndsSession ==
    (lastSettled.call \in {"loadTenants", "loadRevenueData"} /\ lastSettled.authFailure)
        => (SessionCleared /\ location.pathname = "/login")

\* C8: for every guarded route and resolved user, the sidebar shows the route's
\* entry exactly when the route's guards render the page.
C8_SidebarAgreesWithGuard ==
    \A path \in GuardedPaths :
        (StorageAuthenticated /\ ~loading) =>
            (SidebarShows(user, path) <=> RouteElement(path) = Page(path))

\* C8 witness: the layout (with the sidebar) is rendered for a limited admin who
\* may manage subscriptions but not payment gateways.
C8_Witness ==
    /\ View.kind = "page"
    /\ ~loading /\ user # NoUser /\ ~user.is_superuser
    /\ user.limited_admin # NoProfile
    /\ user.limited_admin.permissions["can_manage_subscriptions"]
    /\ ~user.limited_admin.permissions["can_manage_payment_gateways"]

----------------------------------------------------------------------------
(* Payment gateways page *)

GatewayNames == {"PayTabs", "Stripe"}

\* gateway.name.toLowerCase().includes('paytabs') / includes('stripe')
isPaytabs(name) == name = "PayTabs"
isStripe(name) == name = "Stripe"
otherGatewayType(name) == IF isPaytabs(name) THEN "Stripe" ELSE "PayTabs"

NoGateway == [name |-> "none", status |-> "SetupRequired", enabled |-> FALSE]
NoToggle == [gatewayId |-> "none", enabled |-> FALSE]

\* loadGateways / handleManage: API status string -> PaymentGatewayStatus
ToGatewayStatus(status) ==
    IF status = "active" THEN "Active"
    ELSE IF status = "disabled" THEN "Disabled"
    ELSE "SetupRequired"

\* performToggle / handleSaveSettings: PaymentGatewayStatus -> API status string
ToApiStatus(status) ==
    IF status = "Active" THEN "active"
    ELSE IF status = "Disabled" THEN "disabled"
    ELSE "setup_required"

\* loadGateways: the mapped list of the API's gateways
apiGateways ==
    [n \in DOMAIN backend |->
        [status |-> ToGatewayStatus(backend[n].status), enabled |-> backend[n].enabled]]

\* gateways.find(gw => name includes otherGatewayType && gw.enabled)
otherGateway(name) ==
    IF /\ otherGatewayType(name) \in DOMAIN gateways
       /\ otherGatewayType(name) # name
       /\ gateways[otherGatewayType(name)].enabled
    THEN otherGatewayType(name)
    ELSE "none"

NoOp == [handler |-> "none", target |-> "none", enabled |-> FALSE, status |-> "Disabled",
         other |-> "none", disableDone |-> FALSE, disableFailed |-> FALSE,
         enableIssued |-> FALSE, enableDone |-> FALSE,
         before |-> [status |-> "disabled", enabled |-> FALSE]]

StartOp(handler, target, enabled, status, other) ==
    [handler |-> handler, target |-> target, enabled |-> enabled, status |-> status,
     other |-> other, disableDone |-> FALSE, disableFailed |-> FALSE,
     enableIssued |-> FALSE, enableDone |-> FALSE, before |-> backend[target]]

\* PaymentGateways mounts: useState initial values and the effect's loadGateways
MountGateways ==
    /\ gwPc = "idle"
    /\ gateways' = <<>>
    /\ gwIsLoading' = TRUE
    /\ confirmToggle' = NoToggle
    /\ isSettingsModalOpen' = FALSE
    /\ selectedGateway' = NoGateway
    /\ gwPc' = "mount_load"
    /\ gwOp' = NoOp
    /\ UNCHANGED backend
    /\ UNCHANGED nonGatewayVars

\* loadGateways settles: try / catch / finally
loadGatewaysSettles(ok) ==
    /\ gateways' = IF ok THEN apiGateways' ELSE gateways
    /\ gwIsLoading' = FALSE

MountLoad(ok) ==
    /\ gwPc = "mount_load"
    /\ UNCHANGED backend
    /\ loadGatewaysSettles(ok)
    /\ gwPc' = "idle"
    /\ UNCHANGED <<confirmToggle, isSettingsModalOpen, selectedGateway, gwOp>>
    /\ UNCHANGED nonGatewayVars

CardsShown == gwPc = "idle" /\ ~gwIsLoading /\ confirmToggle = NoToggle
              /\ ~isSettingsModalOpen

\* GatewayCard's switch (disabled while SetupRequired) -> handleToggle
handleToggle(name) ==
    /\ CardsShown
    /\ name \in DOMAIN gateways
    /\ gateways[name].status # "SetupRequired"
    /\ confirmToggle' = [gatewayId |-> name, enabled |-> ~gateways[name].enabled]
    /\ gwOp' = NoOp
    /\ UNCHANGED <<backend, gateways, gwIsLoading, isSettingsModalOpen,
                   selectedGateway, gwPc>>
    /\ UNCHANGED nonGatewayVars

\* the confirmation dialog is cancelled
cancelToggle ==
    /\ gwPc = "idle"
    /\ confirmToggle # NoToggle
    /\ confirmToggle' = NoToggle
    /\ UNCHANGED <<backend, gateways, gwIsLoading, isSettingsModalOpen,
                   selectedGateway, gwPc, gwOp>>
    /\ UNCHANGED nonGatewayVars

performToggleEnablesAtOnce ==
    /\ gwPc = "idle"
    /\ confirmToggle # NoToggle
    /\ confirmToggle.gatewayId \in DOMAIN gateways
    /\ LET name == confirmToggle.gatewayId
           enabled == confirmToggle.enabled
           other == IF enabled /\ (isPaytabs(name) \/ isStripe(name))
                    THEN otherGateway(name) ELSE "none"
       IN /\ gwOp' = StartOp("performToggle", name, enabled, gateways[name].status, other)
          /\ gwPc' = "toggle_toggle"
    /\ UNCHANGED <<backend, gateways, gwIsLoading, confirmToggle, isSettingsModalOpen,
                   selectedGateway>>
    /\ UNCHANGED nonGatewayVars

\* the confirmation dialog is confirmed: performToggle up to its first await
performToggle ==
    /\ gwPc = "idle"
    /\ confirmToggle # NoToggle
    /\ confirmToggle.gatewayId \in DOMAIN gateways
    /\ LET name == confirmToggle.gatewayId
           enabled == confirmToggle.enabled
           other == IF enabled /\ (isPaytabs(name) \/ isStripe(name))
                    THEN otherGateway(name) ELSE "none"
       IN /\ gwOp' = StartOp("performToggle", name, enabled, gateways[name].status, other)
          /\ gwPc' = IF other # "none" THEN "toggle_disableOther" ELSE "toggle_toggle"
    /\ UNCHANGED <<backend, gateways, gwIsLoading, confirmToggle, isSettingsModalOpen,
                   selectedGateway>>
    /\ UNCHANGED nonGatewayVars

\* performToggle: updatePaymentGatewayAPI(other, enabled: false) settles
performToggleDisableOther(ok) ==
    /\ gwPc = "toggle_disableOther"
    /\ IF ok
       THEN /\ backend' = [backend EXCEPT ![gwOp.other] =
                              [status |-> ToApiStatus(gateways[gwOp.other].status),
                               enabled |-> FALSE]]
            /\ gwOp' = [gwOp EXCEPT !.disableDone = TRUE]
            /\ gwPc' = "toggle_toggle"
            /\ UNCHANGED confirmToggle
       ELSE /\ UNCHANGED backend
            /\ gwOp' = [gwOp EXCEPT !.disableFailed = TRUE]
            /\ gwPc' = "idle"
            /\ confirmToggle' = NoToggle
    /\ UNCHANGED <<gateways, gwIsLoading, isSettingsModalOpen, selectedGateway>>
    /\ UNCHANGED nonGatewayVars

\* performToggle: togglePaymentGatewayAPI(gatewayId) settles
performToggleToggle(ok) ==
    /\ gwPc = "toggle_toggle"
    /\ IF ok
       THEN /\ backend' = [backend EXCEPT ![gwOp.target].enabled = ~backend[gwOp.target].enabled]
            /\ gwOp' = [gwOp EXCEPT !.enableIssued = gwOp.enabled,
                                    !.enableDone = gwOp.enabled]
            /\ gwPc' = "toggle_reload"
            /\ gwIsLoading' = TRUE
            /\ UNCHANGED confirmToggle
       ELSE /\ UNCHANGED <<backend, gwIsLoading>>
            /\ gwOp' = [gwOp EXCEPT !.enableIssued = gwOp.enabled]
            /\ gwPc' = "idle"
            /\ confirmToggle' = NoToggle
    /\ UNCHANGED <<gateways, isSettingsModalOpen, selectedGateway>>
    /\ UNCHANGED nonGatewayVars

\* performToggle: loadGateways settles, then the audit log entry and finally
performToggleReload(ok) ==
    /\ gwPc = "toggle_reload"
    /\ UNCHANGED backend
    /\ loadGatewaysSettles(ok)
    /\ confirmToggle' = NoToggle
    /\ gwPc' = "idle"
    /\ UNCHANGED <<isSettingsModalOpen, selectedGateway, gwOp>>
    /\ UNCHANGED nonGatewayVars

\* the card's manage button: handleManage (getPaymentGatewayAPI settles)
handleManage(name, ok) ==
    /\ CardsShown
    /\ name \in DOMAIN gateways
    /\ selectedGateway' =
          IF ok THEN [name |-> name, status |-> ToGatewayStatus(backend[name].status),
                      enabled |-> backend[name].enabled]
          ELSE [name |-> name, status |-> gateways[name].status,
                enabled |-> gateways[name].enabled]
    /\ isSettingsModalOpen' = TRUE
    /\ gwOp' = NoOp
    /\ UNCHANGED <<backend, gateways, gwIsLoading, confirmToggle, gwPc>>
    /\ UNCHANGED nonGatewayVars

\* the settings modal is closed
onClose ==
    /\ gwPc = "idle"
    /\ isSettingsModalOpen
    /\ isSettingsModalOpen' = FALSE
    /\ UNCHANGED <<backend, gateways, gwIsLoading, confirmToggle, selectedGateway,
                   gwPc, gwOp>>
    /\ UNCHANGED nonGatewayVars

\* GatewaySettingsModal.handleSave: the gateway handed to onSave
handleSave(gateway, hasKeys, tested) ==
    IF ~hasKeys
    THEN [name |-> gateway.name, status |-> "SetupRequired", enabled |-> FALSE]
    ELSE IF tested
    THEN [name |-> gateway.name, status |-> "Active", enabled |-> TRUE]
    ELSE [name |-> gateway.name, status |-> "Disabled", enabled |-> gateway.enabled]

\* the settings modal is saved: handleSaveSettings up to its first await
handleSaveSettings(updatedGateway) ==
    /\ gwPc = "idle"
    /\ isSettingsModalOpen
    /\ selectedGateway # NoGateway
    /\ LET name == updatedGateway.name
           other == IF updatedGateway.enabled /\ (isPaytabs(name) \/ isStripe(name))
                    THEN otherGateway(name) ELSE "none"
       IN /\ gwOp' = StartOp("handleSaveSettings", name, updatedGateway.enabled,
                             updatedGateway.status, other)
          /\ gwPc' = IF other # "none" THEN "save_getOther" ELSE "save_update"
    /\ UNCHANGED <<backend, gateways, gwIsLoading, confirmToggle, isSettingsModalOpen,
                   selectedGateway>>
    /\ UNCHANGED nonGatewayVars

\* handleSaveSettings: getPaymentGatewayAPI(other) settles
handleSaveSettingsGetOther(ok) ==
    /\ gwPc = "save_getOther"
    /\ gwPc' = IF ok THEN "save_disableOther" ELSE "save_fallback"
    /\ UNCHANGED <<backend, gateways, gwIsLoading, confirmToggle, isSettingsModalOpen,
                   selectedGateway, gwOp>>
    /\ UNCHANGED nonGatewayVars

\* handleSaveSettings: updatePaymentGatewayAPI(other, fresh fields, enabled: false)
handleSaveSettingsDisableOther(ok) ==
    /\ gwPc = "save_disableOther"
    /\ IF ok
       THEN /\ backend' = [backend EXCEPT ![gwOp.other] =
                              [status |-> ToApiStatus(ToGatewayStatus(backend[gwOp.other].status)),
                               enabled |-> FALSE]]
            /\ gwOp' = [gwOp EXCEPT !.disableDone = TRUE]
            /\ gwPc' = "save_update"
       ELSE /\ UNCHANGED <<backend, gwOp>>
            /\ gwPc' = "save_fallback"
    /\ UNCHANGED <<gateways, gwIsLoading, confirmToggle, isSettingsModalOpen,
                   selectedGateway>>
    /\ UNCHANGED nonGatewayVars

\* handleSaveSettings (inner catch): updatePaymentGatewayAPI(other, list fields,
\* enabled: false); a failure reaches the outer catch
handleSaveSettingsFallback(ok) ==
    /\ gwPc = "save_fallback"
    /\ IF ok
       THEN /\ backend' = [backend EXCEPT ![gwOp.other] =
                              [status |-> ToApiStatus(gateways[gwOp.other].status),
                               enabled |-> FALSE]]
            /\ gwOp' = [gwOp EXCEPT !.disableDone = TRUE]
            /\ gwPc' = "save_update"
       ELSE /\ UNCHANGED backend
            /\ gwOp' = [gwOp EXCEPT !.disableFailed = TRUE]
            /\ gwPc' = "idle"
    /\ UNCHANGED <<gateways, gwIsLoading, confirmToggle, isSettingsModalOpen,
                   selectedGateway>>
    /\ UNCHANGED nonGatewayVars

\* handleSaveSettings: updatePaymentGatewayAPI(updatedGateway) settles
handleSaveSettingsUpdate(ok) ==
    /\ gwPc = "save_update"
    /\ IF ok
       THEN /\ backend' = [backend EXCEPT ![gwOp.target] =
                              [status |-> ToApiStatus(gwOp.status), enabled |-> gwOp.enabled]]
            /\ gwOp' = [gwOp EXCEPT !.enableIssued = gwOp.enabled,
                                    !.enableDone = gwOp.enabled]
            /\ gwPc' = "save_reload"
            /\ gwIsLoading' = TRUE
       ELSE /\ UNCHANGED <<backend, gwIsLoading>>
            /\ gwOp' = [gwOp EXCEPT !.enableIssued = gwOp.enabled]
            /\ gwPc' = "idle"
    /\ UNCHANGED <<gateways, confirmToggle, isSettingsModalOpen, selectedGateway>>
    /\ UNCHANGED nonGatewayVars

\* handleSaveSettings: loadGateways settles, then the modal is closed
handleSaveSettingsReload(ok) ==
    /\ gwPc = "save_reload"
    /\ UNCHANGED backend
    /\ loadGatewaysSettles(ok)
    /\ isSettingsModalOpen' = FALSE
    /\ selectedGateway' = NoGateway
    /\ gwPc' = "idle"
    /\ UNCHANGED <<confirmToggle, gwOp>>
    /\ UNCHANGED nonGatewayVars

\* gateway records the API holds: the switch is off while setup is required
ApiGatewayRecords ==
    {r \in [status : {"active", "disabled", "setup_required"}, enabled : BOOLEAN] :
        r.status = "setup_required" => ~r.enabled}

\* a superuser has the gateways page open
SessionOnGatewaysPage ==
    /\ accessToken = TRUE /\ refreshToken = TRUE
    /\ lsIsAuthenticated = FALSE /\ ssIsAuthenticated = TRUE
    /\ isAuthenticated = TRUE
    /\ user = [is_superuser |-> TRUE, limited_admin |-> NoProfile]
    /\ loading = FALSE /\ userFetches = 0
    /\ location = [pathname |-> "/payment-gateways", state |-> NoState]
    /\ isLoadingTenants = FALSE /\ tenantFetches = 0
    /\ tenants = <<>> /\ tenantJoins = <<>> /\ tenantOps = <<>>
    /\ revenueLoading = FALSE /\ revenueFetches = 0 /\ mrrData = <<>>
    /\ lastSettled = NothingSettled
    /\ NoCompanies /\ NoPayments /\ SettingsUnmounted
    /\ PlansUnmounted

InitGateways ==
    /\ SessionOnGatewaysPage
    /\ ModalUnmounted
    /\ backend \in [GatewayNames -> ApiGatewayRecords]
    /\ ~(backend["PayTabs"].enabled /\ backend["Stripe"].enabled)
    /\ gateways = <<>>
    /\ gwIsLoading = TRUE
    /\ confirmToggle = NoToggle
    /\ isSettingsModalOpen = FALSE
    /\ selectedGateway = NoGateway
    /\ gwPc = "mount_load"
    /\ gwOp = NoOp

NextGateways ==
    \/ MountGateways
    \/ \E ok \in BOOLEAN : MountLoad(ok)
    \/ \E name \in GatewayNames : handleToggle(name)
    \/ cancelToggle
    \/ performToggle
    \/ \E ok \in BOOLEAN : performToggleDisableOther(ok)
    \/ \E ok \in BOOLEAN : performToggleToggle(ok)
    \/ \E ok \in BOOLEAN : performToggleReload(ok)
    \/ \E name \in GatewayNames, ok \in BOOLEAN : handleManage(name, ok)
    \/ onClose
    \/ \E hasKeys \in BOOLEAN, tested \in BOOLEAN :
          handleSaveSettings(handleSave(selectedGateway, hasKeys, tested))
    \/ \E ok \in BOOLEAN : handleSaveSettingsGetOther(ok)
    \/ \E ok \in BOOLEAN : handleSaveSettingsDisableOther(ok)
    \/ \E ok \in BOOLEAN : handleSaveSettingsFallback(ok)
    \/ \E ok \in BOOLEAN : handleSaveSettingsUpdate(ok)
    \/ \E ok \in BOOLEAN : handleSaveSettingsReload(ok)

\* the payment gateways page against the REST API
SpecGateways == InitGateways /\ [][NextGateways]_vars

----------------------------------------------------------------------------
(* Properties of the payment gateways page *)

----------------------------------------------------------------------------
(* Gateway settings modal *)

\* tests connection calls in flight at once
MaxTests == 1

ModalGatewayNames == {"PayTabs", "Stripe", "ZainCash", "QiCard", "FIB", "Other"}

\* gateway.name.toLowerCase().includes(...)
isZaincash(name) == name = "ZainCash"
isQicard(name) == name = "QiCard"
isFib(name) == name = "FIB"

\* the inputs the form renders for the gateway (environment is a radio group)
FormFields(name) ==
    IF isPaytabs(name) THEN {"profileId", "serverKey", "clientKey"}
    ELSE IF isZaincash(name) THEN {"merchantId", "merchantSecret", "msisdn"}
    ELSE IF isQicard(name) THEN {"terminalId", "username", "password"}
    ELSE IF isFib(name) THEN {"clientId", "clientSecret"}
    ELSE {"publishableKey", "secretKey"}

Environments == {"test", "live"}

credentialFields ==
    {"merchantId", "merchantSecret", "profileId", "serverKey", "clientKey",
     "publishableKey", "secretKey", "terminalId", "username", "password",
     "clientId", "clientSecret"}

\* handleTestConnection: the fields it validates as required
TestRequiredFields(name) ==
    IF isPaytabs(name) THEN {"profileId", "serverKey", "clientKey"}
    ELSE IF isZaincash(name) THEN {"merchantId", "merchantSecret"}
    ELSE IF isStripe(name) THEN {"secretKey"}
    ELSE IF isQicard(name) THEN {"terminalId", "username", "password"}
    ELSE IF isFib(name) THEN {"clientId", "clientSecret"}
    ELSE {"publishableKey", "secretKey"}

\* handleTestConnection: gateways tested by a call of the API
TestedByApi(name) == isZaincash(name) \/ isStripe(name) \/ isQicard(name) \/ isFib(name)

\* handleSave: hasKeys
hasKeys(name, data) ==
    IF isPaytabs(name) THEN {"profileId", "serverKey", "clientKey"} \subseteq data
    ELSE IF isZaincash(name) THEN {"merchantId", "merchantSecret"} \subseteq data
    ELSE IF isQicard(name) THEN {"terminalId", "username", "password"} \subseteq data
    ELSE IF isFib(name) THEN {"clientId", "clientSecret"} \subseteq data
    ELSE {"publishableKey", "secretKey"} \subseteq data

\* the effect on [gateway, isOpen] has run for the current props
EffectsFlushed == effectDeps = <<selectedGateway, isSettingsModalOpen>>

\* the modal renders its form: isOpen && gateway && formData
ModalShown == isSettingsModalOpen /\ selectedGateway # NoGateway /\ EffectsFlushed

\* useEffect([gateway, isOpen]): the form is filled from gateway.config and the
\* test state is reset when the modal opens
ModalEffect ==
    /\ ~EffectsFlushed
    /\ effectDeps' = <<selectedGateway, isSettingsModalOpen>>
    /\ IF selectedGateway # NoGateway /\ isSettingsModalOpen
       THEN /\ formData' \in SUBSET FormFields(selectedGateway.name)
            /\ formEnvironment' \in Environments
            /\ testStatus' = "idle"
            /\ testPassed' = FALSE
            /\ staleTests' = testsInFlight
       ELSE UNCHANGED <<formData, formEnvironment, testStatus, testPassed, staleTests>>
    /\ UNCHANGED testsInFlight
    /\ UNCHANGED nonModalVars

\* an input of the form changes: filled tells whether its new value is non-empty
handleChange(field, filled) ==
    /\ ModalShown
    /\ field \in FormFields(selectedGateway.name) \cup {"environment"}
    /\ IF field = "environment"
       THEN /\ formEnvironment' \in Environments \ {formEnvironment}
            /\ UNCHANGED formData
       ELSE /\ formData' = IF filled THEN formData \cup {field} ELSE formData \ {field}
            /\ UNCHANGED formEnvironment
    /\ testStatus' = "idle"
    /\ testPassed' = IF field \in credentialFields THEN FALSE ELSE testPassed
    /\ staleTests' = IF field \in credentialFields THEN testsInFlight ELSE staleTests
    /\ UNCHANGED <<testsInFlight, effectDeps>>
    /\ UNCHANGED nonModalVars

\* the test button is clicked: handleTestConnection up to its await
handleTestConnection ==
    /\ ModalShown
    /\ testStatus # "testing"
    /\ IF ~(TestRequiredFields(selectedGateway.name) \subseteq formData)
       THEN /\ testStatus' = "error"
            /\ UNCHANGED <<testPassed, testsInFlight>>
       ELSE IF TestedByApi(selectedGateway.name)
       THEN /\ testsInFlight < MaxTests
            /\ testStatus' = "testing"
            /\ testsInFlight' = testsInFlight + 1
            /\ UNCHANGED testPassed
       ELSE /\ testStatus' = "success"
            /\ testPassed' = TRUE
            /\ UNCHANGED testsInFlight
    /\ UNCHANGED <<formData, formEnvironment, effectDeps, staleTests>>
    /\ UNCHANGED nonModalVars

\* handleTestConnection: testPaymentGatewayConnectionAPI settles, for any of
\* the calls in flight
handleTestConnectionSettles(success) ==
    /\ testsInFlight > 0
    /\ testsInFlight' = testsInFlight - 1
    /\ \/ staleTests > 0 /\ staleTests' = staleTests - 1
       \/ staleTests < testsInFlight /\ staleTests' = staleTests
    /\ testStatus' = IF success THEN "success" ELSE "error"
    /\ testPassed' = success
    /\ UNCHANGED <<formData, formEnvironment, effectDeps>>
    /\ UNCHANGED nonModalVars

\* the form is submitted: handleSave hands the gateway to onSave (handleSaveSettings)
ModalSave ==
    /\ ModalShown
    /\ handleSaveSettings(handleSave(selectedGateway,
                                     hasKeys(selectedGateway.name, formData),
                                     testPassed \/ testStatus = "success"))

\* gateways as the page's list holds them
GatewayRecords ==
    {r \in [status : {"Active", "Disabled", "SetupRequired"}, enabled : BOOLEAN] :
        r.status = "SetupRequired" => ~r.enabled}

\* the settings modal has just been opened (handleManage) for the one gateway
\* the API holds
InitModal ==
    /\ SessionOnGatewaysPage
    /\ \E name \in ModalGatewayNames, r \in GatewayRecords :
          /\ selectedGateway = [name |-> name, status |-> r.status, enabled |-> r.enabled]
          /\ backend = [n \in {name} |->
                          [status |-> ToApiStatus(r.status), enabled |-> r.enabled]]
    /\ gateways = apiGateways
    /\ gwIsLoading = FALSE
    /\ confirmToggle = NoToggle
    /\ isSettingsModalOpen = TRUE
    /\ gwPc = "idle"
    /\ gwOp = NoOp
    /\ formData = {}
    /\ formEnvironment = "test"
    /\ testStatus = "idle"
    /\ testPassed = FALSE
    /\ testsInFlight = 0 /\ staleTests = 0
    /\ effectDeps = <<NoGateway, FALSE>>

NextModal ==
    \/ ModalEffect
    \/ \E field \in credentialFields \cup {"msisdn", "environment"}, filled \in BOOLEAN :
          handleChange(field, filled)
    \/ handleTestConnection
    \/ \E success \in BOOLEAN : handleTestConnectionSettles(success)
    \/ ModalSave
    \/ \E ok \in BOOLEAN : handleSaveSettingsUpdate(ok)
    \/ \E ok \in BOOLEAN : handleSaveSettingsReload(ok)
    \/ \E name \in ModalGatewayNames, ok \in BOOLEAN : handleManage(name, ok)
    \/ onClose

\* the settings modal of one gateway: form, connection test and save
SpecModal == InitModal /\ [][NextModal]_vars

\* the step in which the form is submitted
SaveStep ==
    /\ gwPc = "idle" /\ gwPc' # "idle"
    /\ gwOp'.handler = "handleSaveSettings"

\* C11: on save, with the credentials the gateway requires (those the connection
\* test validates) missing the status is SetupRequired and enabled is false;
\* with them present and no passed test it is Disabled with enabled as it was;
\* it is Active (and enabled) only with them present and a passed test; and a
\* passed test with the credentials it required always gives Active.
C11_StatusOnSave ==
    [][SaveStep =>
        LET name == selectedGateway.name
            present == TestRequiredFields(name) \subseteq formData
            passed == testPassed \/ testStatus = "success"
        IN /\ ~present => (gwOp'.status = "SetupRequired" /\ ~gwOp'.enabled)
           /\ (present /\ ~passed) =>
                 (gwOp'.status = "Disabled" /\ gwOp'.enabled = selectedGateway.enabled)
           /\ gwOp'.status = "Active" => (present /\ passed /\ gwOp'.enabled)
           /\ (present /\ passed) => gwOp'.status = "Active"
    ]_vars

----------------------------------------------------------------------------
(* Tenant projection: loadTenants over the lists the API can return *)

\* subscriptions the API returns
MaxSubs == 3
\* latest timestamp of a subscription's end_date (0: no end_date)
MaxDate == 2

CompanyIds == {1, 2}

\* the API's subscription lists of length n: ids follow the list order, the
\* subscription starts when it ends and its plan is the plan of the company's id
RECURSIVE SubscriptionLists(_)
SubscriptionLists(n) ==
    IF n = 0 THEN {<<>>}
    ELSE {Append(subs, [id |-> n, company |-> c, is_active |-> a, start_date |-> d,
                        end_date |-> d, plan |-> c]) :
             subs \in SubscriptionLists(n - 1), c \in CompanyIds, a \in BOOLEAN,
             d \in 0..MaxDate}

PromiseAny(outcomes) ==
    IF \E i \in DOMAIN outcomes : outcomes[i].ok THEN {Ok}
    ELSE {outcomes[i] : i \in DOMAIN outcomes}

\* Promise.all of the three fetches: fulfilled when all are, else rejected with
\* the error of the fetch that failed first
PromiseAll(outcomes) ==
    IF \A i \in DOMAIN outcomes : outcomes[i].ok THEN {Ok}
    ELSE {outcomes[i] : i \in {j \in DOMAIN outcomes : ~outcomes[j].ok}}

FetchOutcomes == {Ok, Failed(<<"401">>), Failed(<<"Network", "Error">>)}

\* a superuser has the tenants page open and the join of App's effect is in flight
InitProjector ==
    /\ companies = <<[id |-> 2, created_at |-> 0, name |-> "a"],
                      [id |-> 1, created_at |-> 5, name |-> "a"]>>
    /\ subscriptions \in UNION {SubscriptionLists(n) : n \in 0..MaxSubs}
    /\ language = "en"
    /\ now \in {1, MaxDate}
    /\ accessToken = TRUE /\ refreshToken = TRUE
    /\ lsIsAuthenticated = FALSE /\ ssIsAuthenticated = TRUE
    /\ isAuthenticated = TRUE
    /\ user = [is_superuser |-> TRUE, limited_admin |-> NoProfile]
    /\ loading = FALSE /\ userFetches = 0
    /\ location = [pathname |-> "/tenants", state |-> NoState]
    /\ isLoadingTenants = TRUE /\ tenantFetches = 1
    /\ tenants = <<>> /\ tenantJoins = <<apiResponses>> /\ tenantOps = <<>>
    /\ revenueLoading = FALSE /\ revenueFetches = 0 /\ mrrData = <<>>
    /\ lastSettled = NothingSettled
    /\ GatewaysUnmounted /\ ModalUnmounted /\ NoPayments /\ SettingsUnmounted
    /\ PlansUnmounted

NextProjector ==
    \E outcome \in UNION {PromiseAll(fetched) : fetched \in [1..3 -> FetchOutcomes]} :
        loadTenants(outcome)

\* loadTenants over the lists the API can return
SpecProjector == InitProjector /\ [][NextProjector]_vars

\* positions of the company's active subscriptions in the API's list
ActiveOf(c) ==
    {i \in 1..Len(subscriptions) :
        subscriptions[i].company = c /\ subscriptions[i].is_active}

\* C12: for every list of subscriptions the map holds, for each company with an
\* active subscription, the active subscription with the maximum end_date, the
\* first of them in list order when end dates are equal; a company without an
\* active subscription has no entry (an inactive one is never recorded).
C12_MapHoldsLatestActive ==
    LET map == subscriptionMap(subscriptions)
    IN \A c \in CompanyIds :
          IF ActiveOf(c) = {} THEN c \notin DOMAIN map
          ELSE /\ c \in DOMAIN map
               /\ \E i \in ActiveOf(c) :
                     /\ map[c] = subscriptions[i]
                     /\ \A j \in ActiveOf(c) :
                           /\ subscriptions[j].end_date <= subscriptions[i].end_date
                           /\ subscriptions[j].end_date = subscriptions[i].end_date
                                 => i <= j

\* C12 witness: the join has succeeded for a list in which company 1 has two
\* active subscriptions of equal end_date after an inactive later one; the
\* tenants show the first active one's end.
C12_Witness ==
    /\ lastSettled.call = "loadTenants" /\ Len(tenants) = 2
    /\ Len(subscriptions) = 3
    /\ \A i \in 1..3 : subscriptions[i].company = 1
    /\ ~subscriptions[1].is_active /\ subscriptions[1].end_date = 2
    /\ subscriptions[2].is_active /\ subscriptions[2].end_date = 1
    /\ subscriptions[3].is_active /\ subscriptions[3].end_date = 1
    /\ subscriptionMap(subscriptions)[1].id = 2

\* C13: once the join has succeeded there is one tenant per company, in the
\* companies' order; a company with no active subscription is Deactivated with
\* no endDate and the company's creation date as startDate; otherwise it is
\* Expired when the selected subscription's end_date is before now and Active
\* when it is not; Trial is never produced.
C13_StatusFollowsSelectedSubscription ==
    tenants # <<>> =>
        /\ Len(tenants) = Len(companies)
        /\ \A i \in 1..Len(companies) :
              LET company == companies[i]
                  tenant == tenants[i]
                  selected == subscriptionMap(subscriptions)
              IN /\ tenant.id = company.id
                 /\ tenant.status # "Trial"
                 /\ IF ActiveOf(company.id) = {}
                    THEN /\ tenant.status = "Deactivated"
                         /\ tenant.endDate = NoDate
                         /\ tenant.startDate = IF company.created_at # 0
                                               THEN ToISODate(company.created_at)
                                               ELSE NoDate
                    ELSE tenant.status = IF selected[company.id].end_date < now
                                         THEN "Expired" ELSE "Active"

\* C13 witness: the projected list shows company 2 Expired (its active
\* subscription ended before now) before company 1, Deactivated with only an
\* inactive subscription.
C13_Witness ==
    /\ lastSettled.call = "loadTenants" /\ Len(tenants) = 2
    /\ tenants[1].id = 2 /\ tenants[1].status = "Expired"
    /\ tenants[2].id = 1 /\ tenants[2].status = "Deactivated"
    /\ \E i \in 1..Len(subscriptions) :
          subscriptions[i].company = 1 /\ subscriptions[i].end_date >= now

\* C16: the tenants are set from a projection only when the three fetches have
\* all succeeded; when the join fails with a non-authentication error the list
\* becomes empty, the session and the location are left as they are, and the
\* loading flag is cleared.
C16_JoinIsAllOrNothing ==
    [][\A outcome \in FetchOutcomes :
         loadTenants(outcome) =>
            /\ \A fetched \in [1..3 -> FetchOutcomes] :
                  (outcome \in PromiseAll(fetched) /\ tenants' # <<>>)
                      => \A k \in 1..3 : fetched[k].ok
            /\ outcome.ok =>
                  \E i \in 1..Len(tenantJoins) : tenants' = mappedTenants(tenantJoins[i])
            /\ (~outcome.ok /\ ~IsAuthError(outcome.message)) =>
                  /\ tenants' = <<>>
                  /\ ~isLoadingTenants'
                  /\ UNCHANGED <<accessToken, refreshToken, lsIsAuthenticated,
                                 ssIsAuthenticated, isAuthenticated, location>>
    ]_vars

\* C16 witness: the join has failed with a non-authentication error: no tenant
\* is listed, nothing is loading and the session is intact.
C16_Witness ==
    /\ lastSettled.call = "loadTenants" /\ ~lastSettled.authFailure
    /\ tenants = <<>> /\ ~isLoadingTenants /\ tenantFetches = 0
    /\ accessToken /\ ssIsAuthenticated /\ isAuthenticated
    /\ location.pathname = "/tenants"

----------------------------------------------------------------------------
(* Tenant mutations: the handlers App passes to the tenants page *)

\* tenant handlers started in one behaviour
MaxOps == 2

\* results?.find(sub => sub.company === tenantId && sub.is_active)
activeSubscription(subs, tenantId) ==
    LET found == {i \in 1..Len(subs) : subs[i].company = tenantId /\ subs[i].is_active}
    IN IF found = {} THEN NoSubscription
       ELSE subs[CHOOSE i \in found : \A j \in found : i <= j]

\* PlansTab: the delete button of a plan is enabled
isDeletable(plan) == ~\E i \in 1..Len(tenants) : tenants[i].currentPlan = plan.name

\* the handlers that have not returned
Running == {k \in 1..Len(tenantOps) : tenantOps[k].pc # "done"}
\* the activation modal is open from the click until its handler has returned
ActivationModalOpen ==
    \E k \in Running : tenantOps[k].handler \in {"activate", "deactivate"}
\* the rows of the tenants table can be clicked
TenantRows ==
    IF View = Page("/tenants") /\ ~isLoadingTenants /\ ~ActivationModalOpen
       /\ Len(tenantOps) < MaxOps
    THEN 1..Len(tenants) ELSE {}

StartTenantOp(handler, pc, tenantId, planId) ==
    /\ tenantOps' = Append(tenantOps, [handler |-> handler, pc |-> pc,
                                       tenantId |-> tenantId, planId |-> planId,
                                       found |-> NoSubscription])
    /\ lastSettled' = NothingSettled
    /\ UNCHANGED <<accessToken, refreshToken, lsIsAuthenticated, ssIsAuthenticated,
                   isAuthenticated, user, loading, userFetches, location,
                   isLoadingTenants, tenantFetches, revenueLoading, revenueFetches,
                   mrrData, tenants, tenantJoins>>
    /\ UNCHANGED <<gatewayVars, modalVars, apiTenantVars, reportInputs, settingsVars,
                   planVars>>

\* the handler k moves to pc; with reload it calls loadTenants and awaits it,
\* with an action key it calls addLog before
TenantOpStep(k, pc, found, reload, actionKey) ==
    /\ tenantOps' = [tenantOps EXCEPT ![k] =
                        IF pc = "done"
                        THEN [@ EXCEPT !.pc = pc, !.found = NoSubscription]
                        ELSE [@ EXCEPT !.pc = pc, !.found = found]]
    /\ IF reload
       THEN /\ tenantFetches < MaxFetches
            /\ tenantFetches' = tenantFetches + 1
            /\ tenantJoins' = Append(tenantJoins, [companies |-> companies',
                                                   subscriptions |-> subscriptions',
                                                   language |-> language,
                                                   caller |-> k])
            /\ isLoadingTenants' = TRUE
       ELSE UNCHANGED <<tenantFetches, tenantJoins, isLoadingTenants>>
    /\ logs' = IF actionKey # "" THEN addLog(actionKey) ELSE logs
    /\ lastSettled' = NothingSettled
    /\ UNCHANGED <<accessToken, refreshToken, lsIsAuthenticated, ssIsAuthenticated,
                   isAuthenticated, user, loading, userFetches, location,
                   revenueLoading, revenueFetches, mrrData, tenants>>
    /\ UNCHANGED <<gatewayVars, modalVars, language, now, reportInputs, planVars>>
    /\ UNCHANGED <<logsLoading, savedTab, activeSetting, settingsDeps, backupStatus,
                   restoringId, backupCalls>>

\* the loadTenants call the handler k awaits has settled
Reloaded(k) == \A i \in 1..Len(tenantJoins) : tenantJoins[i].caller # k

\* Tenants page, edit modal: handleSaveTenant calls onUpdateTenant and closes
onUpdateTenant(row) ==
    /\ row \in TenantRows
    /\ StartTenantOp("update", "updateCompany", tenants[row].id, 0)

\* handleUpdateTenant: updateCompanyAPI, then loadTenants
handleUpdateTenant(k, ok) ==
    /\ k \in Running
    /\ tenantOps[k].handler = "update"
    /\ \/ /\ tenantOps[k].pc = "updateCompany"
          /\ IF ok
             THEN /\ companies' = [i \in DOMAIN companies |->
                                     IF companies[i].id = tenantOps[k].tenantId
                                     THEN [companies[i] EXCEPT !.name = "b"]
                                     ELSE companies[i]]
                  /\ UNCHANGED subscriptions
                  /\ TenantOpStep(k, "loadTenants", NoSubscription, TRUE,
                              "audit.log.tenantUpdated")
             ELSE /\ UNCHANGED <<companies, subscriptions>>
                  /\ TenantOpStep(k, "done", NoSubscription, FALSE, "")
       \/ /\ tenantOps[k].pc = "loadTenants"
          /\ ok
          /\ Reloaded(k)
          /\ UNCHANGED <<companies, subscriptions>>
          /\ TenantOpStep(k, "done", NoSubscription, FALSE, "")

\* Tenants page, activation modal of a tenant that is not Active: onActivate
onActivate(row, planId) ==
    /\ row \in TenantRows
    /\ tenants[row].status \notin {"Active", "Trial"}
    /\ StartTenantOp("activate", "getCompany", tenants[row].id, planId)

\* Tenants page, activation modal of an Active tenant: onDeactivate
onDeactivate(row) ==
    /\ row \in TenantRows
    /\ tenants[row].status \in {"Active", "Trial"}
    /\ StartTenantOp("deactivate", "getCompany", tenants[row].id, 0)

\* updateSubscriptionAPI(id, data): the record of that id is replaced
updateSubscriptionAPI(id, data) ==
    [i \in DOMAIN subscriptions |->
        IF subscriptions[i].id = id THEN data ELSE subscriptions[i]]

\* handleActivateTenant and handleDeactivateTenant: getCompanyAPI,
\* getSubscriptionsAPI, the write of the subscription, loadTenants; then the
\* page's onRefresh
handleActivateTenant(k, ok) ==
    LET op == tenantOps[k]
        subscriptionData == [company |-> op.tenantId, plan |-> op.planId,
                             start_date |-> now, end_date |-> MaxDate,
                             is_active |-> TRUE]
    IN
    /\ k \in Running
    /\ op.handler = "activate"
    /\ \/ /\ op.pc = "getCompany"
          /\ UNCHANGED <<companies, subscriptions>>
          /\ TenantOpStep(k, IF ok THEN "getSubscriptions" ELSE "done",
                          NoSubscription, FALSE, "")
       \/ /\ op.pc = "getSubscriptions"
          /\ UNCHANGED <<companies, subscriptions>>
          /\ TenantOpStep(k, IF ok THEN "write" ELSE "done",
                          activeSubscription(subscriptions, op.tenantId), FALSE, "")
       \/ /\ op.pc = "write"
          /\ UNCHANGED companies
          /\ IF ok
             THEN /\ subscriptions' =
                        IF op.found # NoSubscription
                        THEN updateSubscriptionAPI(op.found.id,
                                 subscriptionData @@ [id |-> op.found.id])
                        ELSE Append(subscriptions,
                                 subscriptionData @@ [id |-> Len(subscriptions) + 1])
                  /\ TenantOpStep(k, "loadTenants", NoSubscription, TRUE,
                              "audit.log.tenantActivated")
             ELSE /\ UNCHANGED subscriptions
                  /\ TenantOpStep(k, "done", NoSubscription, FALSE, "")
       \/ /\ op.pc = "loadTenants"
          /\ ok
          /\ Reloaded(k)
          /\ UNCHANGED <<companies, subscriptions>>
          /\ TenantOpStep(k, "onRefresh", NoSubscription, TRUE, "")
       \/ /\ op.pc = "onRefresh"
          /\ ok
          /\ Reloaded(k)
          /\ UNCHANGED <<companies, subscriptions>>
          /\ TenantOpStep(k, "done", NoSubscription, FALSE, "")

handleDeactivateTenant(k, ok) ==
    LET op == tenantOps[k] IN
    /\ k \in Running
    /\ op.handler = "deactivate"
    /\ \/ /\ op.pc = "getCompany"
          /\ UNCHANGED <<companies, subscriptions>>
          /\ TenantOpStep(k, IF ok THEN "getSubscriptions" ELSE "done",
                          NoSubscription, FALSE, "")
       \/ /\ op.pc = "getSubscriptions"
          /\ UNCHANGED <<companies, subscriptions>>
          /\ LET activeSub == activeSubscription(subscriptions, op.tenantId)
             IN IF ~ok THEN TenantOpStep(k, "done", NoSubscription, FALSE, "")
                ELSE IF activeSub # NoSubscription
                THEN TenantOpStep(k, "write", activeSub, FALSE, "")
                ELSE TenantOpStep(k, "loadTenants", NoSubscription, TRUE, "")
       \/ /\ op.pc = "write"
          /\ UNCHANGED companies
          /\ IF ok
             THEN /\ subscriptions' =
                        updateSubscriptionAPI(op.found.id,
                            [op.found EXCEPT !.is_active = FALSE])
                  /\ TenantOpStep(k, "loadTenants", NoSubscription, TRUE,
                              "audit.log.tenantDeactivated")
             ELSE /\ UNCHANGED subscriptions
                  /\ TenantOpStep(k, "done", NoSubscription, FALSE, "")
       \/ /\ op.pc = "loadTenants"
          /\ ok
          /\ Reloaded(k)
          /\ UNCHANGED <<companies, subscriptions>>
          /\ TenantOpStep(k, "onRefresh", NoSubscription, TRUE, "")
       \/ /\ op.pc = "onRefresh"
          /\ ok
          /\ Reloaded(k)
          /\ UNCHANGED <<companies, subscriptions>>
          /\ TenantOpStep(k, "done", NoSubscription, FALSE, "")

\* a superuser has the tenants page open in either language and the join of
\* App's effect is in flight
InitTenants ==
    /\ companies = <<[id |-> 2, created_at |-> 0, name |-> "a"],
                      [id |-> 1, created_at |-> 5, name |-> "a"]>>
    /\ subscriptions \in UNION {SubscriptionLists(n) : n \in 0..2}
    /\ language \in {"en", "ar"}
    /\ now = 1
    /\ accessToken = TRUE /\ refreshToken = TRUE
    /\ lsIsAuthenticated = FALSE /\ ssIsAuthenticated = TRUE
    /\ isAuthenticated = TRUE
    /\ user = [is_superuser |-> TRUE, limited_admin |-> NoProfile]
    /\ loading = FALSE /\ userFetches = 0
    /\ location = [pathname |-> "/tenants", state |-> NoState]
    /\ isLoadingTenants = TRUE /\ tenantFetches = 1
    /\ tenants = <<>> /\ tenantJoins = <<apiResponses>> /\ tenantOps = <<>>
    /\ revenueLoading = FALSE /\ revenueFetches = 0 /\ mrrData = <<>>
    /\ lastSettled = NothingSettled
    /\ GatewaysUnmounted /\ ModalUnmounted /\ NoPayments /\ SettingsUnmounted
    /\ PlansUnmounted

NextTenants ==
    \/ \E outcome \in {Ok, Failed(<<"Network", "Error">>)} : loadTenants(outcome)
    \/ \E row \in 1..Len(companies) : onUpdateTenant(row)
    \/ \E row \in 1..Len(companies), planId \in {2} : onActivate(row, planId)
    \/ \E row \in 1..Len(companies) : onDeactivate(row)
    \/ \E k \in 1..MaxOps, ok \in BOOLEAN : handleUpdateTenant(k, ok)
    \/ \E k \in 1..MaxOps, ok \in BOOLEAN : handleActivateTenant(k, ok)
    \/ \E k \in 1..MaxOps, ok \in BOOLEAN : handleDeactivateTenant(k, ok)

\* the tenants page under mutations of the tenants
SpecTenants == InitTenants /\ [][NextTenants]_vars

\* C14: every operation that resolves a company's current subscription (the
\* projection of loadTenants, activation, deactivation, the dashboard's recent
\* companies) resolves the same record: the one found by the handlers and the
\* dashboard is the one the projection selects
C14_OneCurrentSubscription ==
    \A c \in CompanyIds :
        LET map == subscriptionMap(subscriptions)
        IN activeSubscription(subscriptions, c) =
               IF c \in DOMAIN map THEN map[c] ELSE NoSubscription

\* nothing of the tenants is in flight and the reload that settled last
\* completed with the lists of the API (a reload that failed leaves no tenant)
ReloadCompleted ==
    /\ tenantJoins = <<>>
    /\ Running = {}
    /\ tenants # <<>>

C17_PlanInUseNotDeletable ==
    \A n \in 1..Len(plans) :
        /\ (\E i \in 1..Len(tenants) : tenants[i].currentPlan = plans[n].name)
              => ~isDeletable(plans[n])
        /\ (/\ tenants = mappedTenants(apiResponses)
            /\ \E i \in 1..Len(companies) :
                  LET map == subscriptionMap(subscriptions)
                  IN /\ companies[i].id \in DOMAIN map
                     /\ map[companies[i].id].plan = plans[n].id)
              => ~isDeletable(plans[n])

----------------------------------------------------------------------------
(* Revenue report and dashboard chart over the filters and payments *)

\* last month a filter date can lie in (months are counted from 0)
MaxMonth == 62
\* payments the API returns
MaxPayments == 2

\* payment_status.toLowerCase()
toLowerCase(payment_status) ==
    CASE payment_status = "Success" -> "success"
      [] payment_status = "Completed" -> "completed"
      [] OTHER -> payment_status

\* PaymentsTab.loadPayments: the status of a payment in the payments table
paymentStatus(payment_status) ==
    CASE toLowerCase(payment_status) \in {"completed", "successful", "success"}
            -> "Successful"
      [] toLowerCase(payment_status) = "pending" -> "Pending"
      [] toLowerCase(payment_status) \in {"canceled", "cancelled"} -> "Canceled"
      [] OTHER -> "Failed"

\* Dashboard.loadDashboardData: the payment is added to the revenue chart
dashboardIsSuccessful(payment_status) ==
    toLowerCase(payment_status) \in {"completed", "successful", "success"}

\* Dashboard.tsx: buildMonthSequence, with its fallbackSequence
dashboardMonthSequence(range) ==
    LET fallbackSequence ==
            pushMonths(<<>>, firstOfMonth(getMonth(now) - 11), 0, now)
        start == parseDateValue(range.start)
        end == parseDateValue(range.end)
        sequence == pushMonths(<<>>, firstOfMonth(getMonth(start)), 0,
                               firstOfMonth(getMonth(end)))
    IN IF start = NoDate \/ end = NoDate \/ start > end THEN fallbackSequence
       ELSE IF Len(sequence) = 0 THEN fallbackSequence
       ELSE IF Len(sequence) > 12
       THEN SubSeq(sequence, Len(sequence) - 12 + 1, Len(sequence))
       ELSE sequence

\* the API's payment lists of length n
RECURSIVE PaymentLists(_)
PaymentLists(n) ==
    IF n = 0 THEN {<<>>}
    ELSE {Append(paid, [amount |-> amount, payment_status |-> status,
                        created_at |-> at]) :
             paid \in PaymentLists(n - 1), amount \in {2, 3},
             status \in {"completed", "successful", "Success", "pending"},
             at \in {NoDate, firstOfMonth(0), firstOfMonth(1) - 1,
                     firstOfMonth(13) + 1}}

\* a superuser has the reports page open and loadRevenueData is in flight
ReportsOpen ==
    /\ accessToken = TRUE /\ refreshToken = TRUE
    /\ lsIsAuthenticated = FALSE /\ ssIsAuthenticated = TRUE
    /\ isAuthenticated = TRUE
    /\ user = [is_superuser |-> TRUE, limited_admin |-> NoProfile]
    /\ loading = FALSE /\ userFetches = 0
    /\ location = [pathname |-> "/reports", state |-> NoState]
    /\ isLoadingTenants = FALSE /\ tenantFetches = 0
    /\ tenants = <<>> /\ tenantJoins = <<>> /\ tenantOps = <<>>
    /\ revenueLoading = TRUE /\ revenueFetches = 1 /\ mrrData = <<>>
    /\ lastSettled = NothingSettled
    /\ companies = <<>> /\ subscriptions = <<>> /\ language = "en"
    /\ GatewaysUnmounted /\ ModalUnmounted /\ SettingsUnmounted
    /\ PlansUnmounted

\* every pair of filter dates, no payment
InitMonths ==
    /\ ReportsOpen
    /\ now \in {firstOfMonth(11), firstOfMonth(13) + 3}
    /\ filters \in [fromDate : {NoDate} \cup 0..(2 * MaxMonth + 1),
                    toDate : {NoDate} \cup 0..(2 * MaxMonth + 1)]
    /\ payments = <<>>

\* a few filter dates, the payment lists
InitReports ==
    /\ ReportsOpen
    /\ now = firstOfMonth(13) + 3
    /\ filters \in [fromDate : {NoDate, 0, 1, 26}, toDate : {NoDate, 0, 1, 26}]
    /\ payments \in UNION {PaymentLists(n) : n \in 0..MaxPayments}

NextReports ==
    \E outcome \in {Ok, Failed(<<"Network", "Error">>)} : loadRevenueData(outcome)

\* buildMonthSequence over the filters
SpecMonths == InitMonths /\ [][NextReports]_vars
\* loadRevenueData over the filters and the payments
SpecReports == InitReports /\ [][NextReports]_vars

\* the amounts of the payments that normalize to Successful and are created in
\* the effective range: from the start of fromDate (else of the default first
\* month) to the end of toDate (else now)
RECURSIVE InRangeSuccessfulTotal(_)
InRangeSuccessfulTotal(paid) ==
    LET rangeStart == IF filters.fromDate = NoDate
                      THEN firstOfMonth(getMonth(now) - 11) ELSE 2 * filters.fromDate
        rangeEnd == IF filters.toDate = NoDate THEN now ELSE 2 * filters.toDate + 1
    IN IF paid = <<>> THEN 0
       ELSE (IF /\ paymentStatus(Head(paid).payment_status) = "Successful"
                /\ Head(paid).created_at # NoDate
                /\ Head(paid).created_at >= rangeStart
                /\ Head(paid).created_at <= rangeEnd
             THEN Head(paid).amount ELSE 0)
            + InRangeSuccessfulTotal(Tail(paid))

RECURSIVE SumMRR(_)
SumMRR(data) == IF data = <<>> THEN 0 ELSE Head(data).MRR + SumMRR(Tail(data))

\* C18: revenue bucketing conserves money: for every date-range filter and
\* every list of payments, the MRR of all month buckets of a loaded report sums
\* to the amounts of the successful payments created in the effective range
C18_BucketsConserveRevenue ==
    mrrData # <<>> =>
        SumMRR(mrrData) = InRangeSuccessfulTotal(payments)

\* a payment with a date is added to the bucket of its month by loadRevenueData
AddedToBucket(payment) ==
    bucketTotal(<<payment>>, getMonth(payment.created_at),
                [fromDate |-> NoDate, toDate |-> NoDate], 1) # 0

\* C19: revenue bucketing uses the normalized payment status: a payment is
\* added to a bucket iff its backend status normalizes to Successful
\* (completed, successful, success), so the revenue report, the dashboard
\* chart and the payments table classify every backend status alike, and a
\* payment of another status is never added
C19_BucketsUseNormalizedStatus ==
    \A i \in 1..Len(payments) :
        LET payment == payments[i]
            successful == paymentStatus(payment.payment_status) = "Successful"
        IN /\ dashboardIsSuccessful(payment.payment_status) <=> successful
           /\ isSuccessful(payment.payment_status) <=> successful
           /\ payment.created_at # NoDate => (AddedToBucket(payment) <=> successful)

\* the entries are first days of consecutive months, 1 to 12 of them
ConsecutiveMonths(sequence) ==
    /\ Len(sequence) >= 1
    /\ Len(sequence) <= 12
    /\ \A i \in 1..Len(sequence) : sequence[i] = firstOfMonth(getMonth(sequence[i]))
    /\ \A i \in 1..(Len(sequence) - 1) :
          getMonth(sequence[i + 1]) = getMonth(sequence[i]) + 1

\* the ranges the dashboard can hold: getDefaultDateRange, and what
\* applyDateRange accepts (both dates, the start not after the end)
DashboardRanges ==
    {[start |-> ToISODate(firstOfMonth(getMonth(now) - 11)), end |-> ToISODate(now)]}
    \cup (IF /\ filters.fromDate # NoDate
             /\ filters.toDate # NoDate
             /\ filters.fromDate <= filters.toDate
          THEN {[start |-> filters.fromDate, end |-> filters.toDate]} ELSE {})

\* C20: the month sequence has at least 1 and at most 12 months for every
\* filter: the single start month when fromDate is after toDate, the trailing
\* 12 months when both are unset, and every entry is the first day of a month,
\* the months consecutive and increasing; a loaded report has one bucket per
\* month of the sequence
C20_MonthSequenceShape ==
    LET sequence == buildMonthSequence(filters) IN
    /\ ConsecutiveMonths(sequence)
    /\ (filters.fromDate # NoDate /\ filters.toDate # NoDate
        /\ filters.fromDate > filters.toDate)
          => sequence = <<firstOfMonth(getMonth(2 * filters.fromDate))>>
    /\ (filters.fromDate = NoDate /\ filters.toDate = NoDate)
          => sequence = [i \in 1..12 |-> firstOfMonth(getMonth(now) - 12 + i)]
    /\ \A range \in DashboardRanges : ConsecutiveMonths(dashboardMonthSequence(range))
    /\ mrrData # <<>> =>
          /\ Len(mrrData) = Len(sequence)
          /\ \A i \in 1..Len(sequence) : mrrData[i].month = getMonth(sequence[i]) % 12

\* a report was loaded for a range of 60 months or more and has 12 buckets
C20_Witness ==
    /\ mrrData # <<>>
    /\ Len(mrrData) = 12
    /\ filters.fromDate # NoDate /\ filters.toDate # NoDate
    /\ getMonth(2 * filters.toDate) - getMonth(2 * filters.fromDate) >= 60

\* C21: a range of more than 12 months keeps its most recent 12 months: for
\* every range whose start is not after its end, the last entry of the month
\* sequence is the month of the effective end date (and 12 entries are kept
\* when the range spans more than 12 months)
C21_SequenceEndsAtRangeEnd ==
    LET startDate == IF filters.fromDate = NoDate
                     THEN firstOfMonth(getMonth(now) - 11)
                     ELSE parseDateValue(filters.fromDate)
        endDate == IF filters.toDate = NoDate THEN firstOfMonth(getMonth(now))
                   ELSE parseDateValue(filters.toDate)
        sequence == buildMonthSequence(filters)
    IN /\ startDate <= endDate =>
             /\ sequence[Len(sequence)] = firstOfMonth(getMonth(endDate))
             /\ getMonth(endDate) - getMonth(startDate) >= 12 => Len(sequence) = 12
       /\ \A range \in DashboardRanges :
             LET shown == dashboardMonthSequence(range)
             IN shown[Len(shown)] = firstOfMonth(getMonth(parseDateValue(range.end)))

\* RevenueReports.handleExport: the rows of the CSV file
handleExport(data) ==
    <<<<"Month", "MRR", "ARR">>>>
        \o [i \in 1..Len(data) |->
               <<data[i].month, ToString(data[i].MRR), ToString(data[i].ARR)>>]

\* C22: in every revenue bucket ARR is 12 times MRR, and the CSV export has one
\* header row followed by one row per bucket, in the order of the buckets
C22_AnnualizedAndExported ==
    /\ \A i \in 1..Len(mrrData) : mrrData[i].ARR = fl(12 * mrrData[i].MRR)
    /\ LET rows == handleExport(mrrData)
       IN /\ Len(rows) = Len(mrrData) + 1
          /\ rows[1] = <<"Month", "MRR", "ARR">>
          /\ \A i \in 1..Len(mrrData) :
                rows[i + 1] = <<mrrData[i].month, ToString(mrrData[i].MRR),
                                ToString(mrrData[i].ARR)>>

\* the revenue report with reloads: the effect of RevenueReports runs again
\* (language or filters change) and calls loadRevenueData
NextReload ==
    \/ NextReports
    \/ loadRevenueDataStart

SpecReload == InitReports /\ [][NextReload]_vars

\* C23: when the fetch of loadRevenueData fails, the displayed aggregates are
\* in their zero-initialized state (no value of an earlier load remains), the
\* loading flag is cleared and no retry request is issued
C23_FailureLeavesZeroState ==
    [][loadRevenueData(Failed(<<"Network", "Error">>)) =>
          /\ \A i \in 1..Len(mrrData') : mrrData'[i].MRR = 0 /\ mrrData'[i].ARR = 0
          /\ ~revenueLoading'
          /\ revenueFetches' < revenueFetches
      ]_vars

----------------------------------------------------------------------------
(* Audit log and system settings *)

MaxBackupCalls == 2
MaxLogs == 2

SettingsTabs == {"general", "security", "limitedAdmins", "audit"}
BackupIds == {"b1"}

\* SystemSettings: canSeeLimitedAdmins
canSeeLimitedAdmins == isSuperAdmin(user) \/ hasPermission(user, "can_manage_limited_admins")

\* SystemSettings: loadSavedTab
loadSavedTab(saved) == IF saved \in SettingsTabs THEN saved ELSE "general"

\* SystemSettings: settingsMenu, the ids of its entries
settingsMenu ==
    {"general", "security", "audit"}
        \cup (IF canSeeLimitedAdmins THEN {"limitedAdmins"} ELSE {})

renderSettingNoGuard(setting) ==
    CASE setting = "general" -> "GeneralSettings"
      [] setting = "security" -> "SecurityBackups"
      [] setting = "limitedAdmins" -> "LimitedAdmins"
      [] setting = "audit" -> "AuditLog"
      [] OTHER -> "GeneralSettings"

\* SystemSettings: renderSetting, the panel it returns
renderSetting(setting) ==
    IF setting = "limitedAdmins" /\ ~canSeeLimitedAdmins THEN "GeneralSettings"
    ELSE CASE setting = "general" -> "GeneralSettings"
           [] setting = "security" -> "SecurityBackups"
           [] setting = "limitedAdmins" -> "LimitedAdmins"
           [] setting = "audit" -> "AuditLog"
           [] OTHER -> "GeneralSettings"

SettingsOpen == View = Page("/settings")
SettingsEffectsFlushed == settingsDeps = <<canSeeLimitedAdmins, activeSetting>>
SecurityBackupsMounted ==
    SettingsOpen /\ SettingsEffectsFlushed /\ renderSetting(activeSetting) = "SecurityBackups"

\* AuditLogProvider: loadLogs, after its await
loadLogs(ok) ==
    /\ logsLoading
    /\ logsLoading' = FALSE
    /\ logs' = IF ok THEN <<[id |-> 0, key |-> "api"]>> ELSE logs
    /\ UNCHANGED <<savedTab, activeSetting, settingsDeps, backupStatus, restoringId,
                   backupCalls>>
    /\ UNCHANGED nonSettingsVars

\* SystemSettings: the two effects, after a render whose dependencies changed
SettingsEffects ==
    /\ SettingsOpen
    /\ ~SettingsEffectsFlushed
    /\ activeSetting' = IF ~canSeeLimitedAdmins /\ activeSetting = "limitedAdmins"
                        THEN "general" ELSE activeSetting
    /\ savedTab' = IF settingsDeps = NoDeps \/ settingsDeps[2] # activeSetting
                   THEN activeSetting ELSE savedTab
    /\ settingsDeps' = <<canSeeLimitedAdmins, activeSetting>>
    /\ UNCHANGED <<logs, logsLoading, backupStatus, restoringId, backupCalls>>
    /\ UNCHANGED nonSettingsVars

\* SystemSettings: a click on an entry of the menu; leaving the security tab
\* unmounts SecurityBackups, whose state is lost while its calls go on
setActiveSetting(tab) ==
    /\ SettingsOpen
    /\ SettingsEffectsFlushed
    /\ tab \in settingsMenu
    /\ activeSetting' = tab
    /\ IF renderSetting(activeSetting) = "SecurityBackups"
          /\ renderSetting(tab) # "SecurityBackups"
       THEN /\ backupStatus' = "idle"
            /\ restoringId' = NoBackup
            /\ backupCalls' = [k \in 1..Len(backupCalls) |->
                                  [backupCalls[k] EXCEPT !.live = FALSE]]
       ELSE UNCHANGED <<backupStatus, restoringId, backupCalls>>
    /\ UNCHANGED <<logs, logsLoading, savedTab, settingsDeps>>
    /\ UNCHANGED nonSettingsVars

CanStartBackupCall ==
    /\ SecurityBackupsMounted
    /\ Len(backupCalls) < MaxBackupCalls
    /\ Len(logs) + Len(backupCalls) < MaxLogs

WithoutCall(k) ==
    [i \in 1..(Len(backupCalls) - 1) |->
        IF i < k THEN backupCalls[i] ELSE backupCalls[i + 1]]

\* SecurityBackups: handleBackupNow, up to its first await
handleBackupNow ==
    /\ CanStartBackupCall
    /\ backupStatus # "in-progress"
    /\ backupStatus' = "in-progress"
    /\ backupCalls' = Append(backupCalls, [api |-> "createSystemBackupAPI", live |-> TRUE])
    /\ UNCHANGED <<logs, logsLoading, savedTab, activeSetting, settingsDeps, restoringId>>
    /\ UNCHANGED nonSettingsVars

\* SecurityBackups: handleBackupNow, after the await of createSystemBackupAPI
\* and after the await of loadBackups(1), which catches its own errors
handleBackupNowResumes(k, ok) ==
    /\ k \in 1..Len(backupCalls)
    /\ \/ /\ backupCalls[k].api = "createSystemBackupAPI"
          /\ ok
          /\ logs' = addLog("audit.log.backupManual")
          /\ backupCalls' = [backupCalls EXCEPT ![k].api = "getSystemBackupsAPI"]
          /\ UNCHANGED backupStatus
       \/ /\ \/ backupCalls[k].api = "createSystemBackupAPI" /\ ~ok
             \/ backupCalls[k].api = "getSystemBackupsAPI"
          /\ backupCalls' = WithoutCall(k)
          /\ backupStatus' = IF backupCalls[k].live THEN "idle" ELSE backupStatus
          /\ UNCHANGED logs
    /\ UNCHANGED <<logsLoading, savedTab, activeSetting, settingsDeps, restoringId>>
    /\ UNCHANGED nonSettingsVars

\* SecurityBackups: handleRestoreBackup, confirmed, up to its await
handleRestoreBackup(backupId) ==
    /\ CanStartBackupCall
    /\ ~(restoringId # NoBackup \/ backupStatus = "in-progress")
    /\ restoringId' = backupId
    /\ backupCalls' = Append(backupCalls, [api |-> "restoreSystemBackupAPI", live |-> TRUE])
    /\ UNCHANGED <<logs, logsLoading, savedTab, activeSetting, settingsDeps, backupStatus>>
    /\ UNCHANGED nonSettingsVars

handleRestoreBackupNoFinally(k, ok) ==
    /\ k \in 1..Len(backupCalls)
    /\ backupCalls[k].api = "restoreSystemBackupAPI"
    /\ backupCalls' = WithoutCall(k)
    /\ logs' = IF ok THEN addLog("audit.log.backupRestored") ELSE logs
    /\ restoringId' = IF backupCalls[k].live /\ ok THEN NoBackup ELSE restoringId
    /\ UNCHANGED <<logsLoading, savedTab, activeSetting, settingsDeps, backupStatus>>
    /\ UNCHANGED nonSettingsVars

\* SecurityBackups: handleRestoreBackup, after its await
handleRestoreBackupResumes(k, ok) ==
    /\ k \in 1..Len(backupCalls)
    /\ backupCalls[k].api = "restoreSystemBackupAPI"
    /\ backupCalls' = WithoutCall(k)
    /\ logs' = IF ok THEN addLog("audit.log.backupRestored") ELSE logs
    /\ restoringId' = IF backupCalls[k].live THEN NoBackup ELSE restoringId
    /\ UNCHANGED <<logsLoading, savedTab, activeSetting, settingsDeps, backupStatus>>
    /\ UNCHANGED nonSettingsVars

\* the users the guard lets onto the settings page
SettingsUsers ==
    {u \in Users : isSuperAdmin(u) \/ hasPermission(u, "can_manage_settings")}

\* the settings page has just been constructed, the audit log is still loading
InitSettings ==
    /\ accessToken = TRUE /\ refreshToken = TRUE
    /\ lsIsAuthenticated = FALSE /\ ssIsAuthenticated = TRUE
    /\ isAuthenticated = TRUE
    /\ user \in SettingsUsers
    /\ loading = FALSE /\ userFetches = 0
    /\ location = [pathname |-> "/settings", state |-> NoState]
    /\ isLoadingTenants = FALSE /\ tenantFetches = 0
    /\ tenants = <<>> /\ tenantJoins = <<>> /\ tenantOps = <<>>
    /\ revenueLoading = FALSE /\ revenueFetches = 0 /\ mrrData = <<>>
    /\ lastSettled = NothingSettled
    /\ NoCompanies /\ NoPayments /\ GatewaysUnmounted /\ ModalUnmounted
    /\ PlansUnmounted
    /\ logs = <<>> /\ logsLoading = TRUE
    /\ savedTab \in SettingsTabs \cup {NoTab, "billing"}
    /\ activeSetting = loadSavedTab(savedTab)
    /\ settingsDeps = NoDeps
    /\ backupStatus = "idle" /\ restoringId = NoBackup /\ backupCalls = <<>>

NextSettings ==
    \/ \E ok \in BOOLEAN : loadLogs(ok)
    \/ SettingsEffects
    \/ \E tab \in SettingsTabs : setActiveSetting(tab)
    \/ handleBackupNow
    \/ \E k \in 1..MaxBackupCalls, ok \in BOOLEAN : handleBackupNowResumes(k, ok)
    \/ \E backupId \in BackupIds : handleRestoreBackup(backupId)
    \/ \E k \in 1..MaxBackupCalls, ok \in BOOLEAN : handleRestoreBackupResumes(k, ok)

\* the settings page and the audit log
SpecSettings == InitSettings /\ [][NextSettings]_vars

\* C24: the audit log list is append-only: every step keeps the entries the
\* list holds, unaltered and in their order, below the entries it adds, in
\* every interleaving of addLog with the completion of the loadLogs fetch
C24_AuditLogAppendOnly ==
    [][\E added \in 0..Len(logs') :
          /\ Len(logs') = added + Len(logs)
          /\ \A i \in 1..Len(logs) : logs'[added + i] = logs[i]]_vars

\* the calls of `api` in flight
InFlight(api) == {k \in 1..Len(backupCalls) : backupCalls[k].api = api}

\* C29: backup creation and restore exclude each other: at most one
\* create-backup call and at most one restore call is in flight, and never a
\* create-backup call together with a restore call
C29_BackupAndRestoreExclusive ==
    /\ Cardinality(InFlight("createSystemBackupAPI")) <= 1
    /\ Cardinality(InFlight("restoreSystemBackupAPI")) <= 1
    /\ ~(InFlight("createSystemBackupAPI") # {} /\ InFlight("restoreSystemBackupAPI") # {})

\* C30: for a user who is neither a superuser nor holds
\* can_manage_limited_admins the Limited Admins panel is never rendered; while
\* 'limitedAdmins' is the active tab (restored from storage) the General
\* panel is rendered, and once the effects have run the active tab is not
\* 'limitedAdmins' and the persisted tab is the active one ('general')
C30_LimitedAdminsPanelGuarded ==
    SettingsOpen /\ ~canSeeLimitedAdmins =>
        /\ renderSetting(activeSetting) # "LimitedAdmins"
        /\ activeSetting = "limitedAdmins" =>
              renderSetting(activeSetting) = "GeneralSettings"
        /\ SettingsEffectsFlushed =>
              /\ activeSetting # "limitedAdmins"
              /\ savedTab = activeSetting
        /\ settingsDeps # NoDeps /\ settingsDeps[2] = "limitedAdmins" =>
              activeSetting = "general"
        /\ settingsDeps # NoDeps /\ settingsDeps[2] = "limitedAdmins"
              /\ SettingsEffectsFlushed => savedTab = "general"

\* 'limitedAdmins' was restored for a user who may not see it, and the effects
\* have run once: the active tab is 'general', the persisted one not yet
C30_Witness ==
    /\ SettingsOpen /\ ~canSeeLimitedAdmins
    /\ settingsDeps = <<FALSE, "limitedAdmins">>
    /\ activeSetting = "general"
    /\ savedTab = "limitedAdmins"

----------------------------------------------------------------------------
(* Claims over the earlier specifications *)

\* C26: guarded navigation settles: for an authenticated user whose
\* current-user fetch has resolved, a navigation that is redirected is
\* redirected to another route, and that route renders its page: the guard
\* never redirects a route to itself or into a chain of redirects
C26_RedirectEndsOnRenderedRoute ==
    /\ isAuthenticated /\ StorageAuthenticated
    /\ ~loading /\ user # NoUser
    /\ View.kind = "redirect"
    => /\ View.to # location.pathname
       /\ RouteElement(View.to).kind = "page"

\* C27: after a successful deactivation of a tenant shown as Active, when the
\* reload the handler awaits completes, that tenant is projected as
\* Deactivated, whatever subscriptions the company has
C27_DeactivatedAfterReload ==
    [][\A k \in 1..Len(tenantOps) :
          /\ tenantOps[k].handler = "deactivate"
          /\ tenantOps[k].pc = "loadTenants"
          /\ ~Reloaded(k)
          /\ \A i \in 1..Len(tenantJoins') : tenantJoins'[i].caller # k
          /\ tenants' # <<>>
          => \A i \in 1..Len(tenants') :
                tenants'[i].id = tenantOps[k].tenantId =>
                    tenants'[i].status = "Deactivated"]_vars

\* C28: a gateway is saved as Active only with tested credentials: the result
\* of a test sent with credentials the form has since replaced does not set
\* the tested flag, the effect that fills the form when the modal opens or the
\* gateway changes resets it, and a save as Active finds the flag (or the
\* success status) set
C28_TestedFlagFollowsCredentials ==
    [][/\ staleTests' < staleTests => ~testPassed' /\ testStatus' # "success"
       /\ (effectDeps' # effectDeps /\ isSettingsModalOpen /\ selectedGateway # NoGateway)
             => ~testPassed' /\ testStatus' = "idle"
       /\ (SaveStep /\ gwOp'.status = "Active")
             => testPassed \/ testStatus = "success"]_vars

----------------------------------------------------------------------------
(* Subscriptions page: saving and deleting a plan *)

PlansOpen == View = Page("/subscriptions")

CanStartPlanCall == PlansOpen /\ Len(logs) + Cardinality(planCalls) < MaxLogs

\* the call of `handler` in flight has returned: the handler goes on to
\* loadPlans after a write that succeeded, else to its finally
PlanCallReturns(handler, ok) ==
    \E call \in planCalls :
       /\ call.handler = handler
       /\ IF call.api # "getPlansAPI" /\ ok
          THEN /\ logs' = addLog(CASE call.api = "updatePlanAPI" -> "audit.log.planUpdated"
                                   [] call.api = "createPlanAPI" -> "audit.log.planCreated"
                                   [] call.api = "deletePlanAPI" -> "audit.log.planDeleted")
               /\ planCalls' = (planCalls \ {call})
                                   \cup {[handler |-> handler, api |-> "getPlansAPI"]}
               /\ UNCHANGED <<isSavingPlan, isDeletingPlan>>
          ELSE /\ planCalls' = planCalls \ {call}
               /\ isSavingPlan' = IF handler = "handleSavePlan" THEN FALSE
                                  ELSE isSavingPlan
               /\ isDeletingPlan' = IF handler = "handleDeletePlan" THEN FALSE
                                    ELSE isDeletingPlan
               /\ UNCHANGED logs

PlanFrame ==
    /\ UNCHANGED <<logsLoading, savedTab, activeSetting, settingsDeps, backupStatus,
                   restoringId, backupCalls>>
    /\ UNCHANGED <<sessionVars, gatewayVars, modalVars, apiTenantVars, reportInputs>>

\* Subscriptions: handleSavePlan of an existing plan or of a new one, up to
\* its first await; PlanModal's buttons are disabled while isSavingPlan
handleSavePlan(existing) ==
    /\ CanStartPlanCall
    /\ ~isSavingPlan
    /\ isSavingPlan' = TRUE
    /\ planCalls' = planCalls \cup
          {[handler |-> "handleSavePlan",
            api |-> IF existing THEN "updatePlanAPI" ELSE "createPlanAPI"]}
    /\ UNCHANGED <<isDeletingPlan, logs>>
    /\ PlanFrame

\* Subscriptions: handleSavePlan after the await of updatePlanAPI or
\* createPlanAPI and after the await of loadPlans, which catches its errors
handleSavePlanResumes(ok) ==
    /\ PlanCallReturns("handleSavePlan", ok)
    /\ PlanFrame

\* Subscriptions: handleDeletePlan, confirmed in the dialog, up to its await
handleDeletePlan ==
    /\ CanStartPlanCall
    /\ ~isDeletingPlan
    /\ isDeletingPlan' = TRUE
    /\ planCalls' = planCalls \cup {[handler |-> "handleDeletePlan", api |-> "deletePlanAPI"]}
    /\ UNCHANGED <<isSavingPlan, logs>>
    /\ PlanFrame

\* Subscriptions: handleDeletePlan after the await of deletePlanAPI and after
\* the await of loadPlans
handleDeletePlanResumes(ok) ==
    /\ PlanCallReturns("handleDeletePlan", ok)
    /\ PlanFrame

\* a superuser has the subscriptions page open
InitPlans ==
    /\ accessToken = TRUE /\ refreshToken = TRUE
    /\ lsIsAuthenticated = FALSE /\ ssIsAuthenticated = TRUE
    /\ isAuthenticated = TRUE
    /\ user = [is_superuser |-> TRUE, limited_admin |-> NoProfile]
    /\ loading = FALSE /\ userFetches = 0
    /\ location = [pathname |-> "/subscriptions", state |-> NoState]
    /\ isLoadingTenants = FALSE /\ tenantFetches = 0
    /\ tenants = <<>> /\ tenantJoins = <<>> /\ tenantOps = <<>>
    /\ revenueLoading = FALSE /\ revenueFetches = 0 /\ mrrData = <<>>
    /\ lastSettled = NothingSettled
    /\ NoCompanies /\ NoPayments /\ GatewaysUnmounted /\ ModalUnmounted
    /\ SettingsUnmounted
    /\ PlansUnmounted

NextPlans ==
    \/ \E existing \in BOOLEAN : handleSavePlan(existing)
    \/ \E ok \in BOOLEAN : handleSavePlanResumes(ok)
    \/ handleDeletePlan
    \/ \E ok \in BOOLEAN : handleDeletePlanResumes(ok)

----------------------------------------------------------------------------
(* Every page whose handlers set an in-progress flag, each API call returning *)

\* one of the four pages is open: tenants, payment gateways, settings on the
\* security tab, subscriptions
InitPages ==
    \/ /\ InitTenants
       /\ language = "en"
       /\ subscriptions = <<[id |-> 1, company |-> 1, is_active |-> TRUE,
                             start_date |-> 1, end_date |-> 1, plan |-> 1]>>
    \/ /\ InitGateways
       /\ backend = [name \in GatewayNames |->
                        [status |-> "active", enabled |-> name = "PayTabs"]]
    \/ /\ InitSettings
       /\ user = [is_superuser |-> TRUE, limited_admin |-> NoProfile]
       /\ savedTab = "security"
    \/ InitPlans

NextPages == NextTenants \/ NextGateways \/ NextSettings \/ NextPlans

\* a join of loadTenants completes, or the call a tenant handler awaits returns
TenantCallReturns ==
    \/ \E outcome \in {Ok, Failed(<<"Network", "Error">>)} : loadTenants(outcome)
    \/ \E k \in 1..MaxOps, ok \in BOOLEAN :
          \/ handleUpdateTenant(k, ok)
          \/ handleActivateTenant(k, ok)
          \/ handleDeactivateTenant(k, ok)

\* the gateways page awaits one call at a time
GatewayCallReturns ==
    \E ok \in BOOLEAN :
       \/ MountLoad(ok)
       \/ performToggleDisableOther(ok) \/ performToggleToggle(ok)
       \/ performToggleReload(ok)
       \/ handleSaveSettingsGetOther(ok) \/ handleSaveSettingsDisableOther(ok)
       \/ handleSaveSettingsFallback(ok) \/ handleSaveSettingsUpdate(ok)
       \/ handleSaveSettingsReload(ok)

\* every API call in flight returns, with success or with an error, and the
\* effects of a render run
EveryCallReturns ==
    /\ WF_vars(TenantCallReturns)
    /\ WF_vars(GatewayCallReturns)
    /\ WF_vars(\E ok \in BOOLEAN : loadLogs(ok))
    /\ WF_vars(SettingsEffects)
    /\ WF_vars(\E k \in 1..MaxBackupCalls, ok \in BOOLEAN : handleBackupNowResumes(k, ok))
    /\ WF_vars(\E k \in 1..MaxBackupCalls, ok \in BOOLEAN : handleRestoreBackupResumes(k, ok))
    /\ WF_vars(\E ok \in BOOLEAN : handleSavePlanResumes(ok))
    /\ WF_vars(\E ok \in BOOLEAN : handleDeletePlanResumes(ok))

\* the pages under the assumption that each call eventually returns
SpecPages == InitPages /\ [][NextPages]_vars /\ EveryCallReturns

\* C25: the UI returns to an interactive state: every in-progress flag that an
\* operation has set (tenant loading, activation modal, gateway toggle under
\* confirmation, plan saving, plan deleting, backup in progress, restoring)
\* is cleared eventually, whether the calls of the operation succeed or fail.
\* One page is open in a behaviour and the flags of the others stay clear, so
\* a disjunction below is the flag of the open page
C25_FlagsEventuallyCleared ==
    /\ (isLoadingTenants \/ gwIsLoading \/ isSavingPlan \/ backupStatus = "in-progress")
          ~> ~(isLoadingTenants \/ gwIsLoading \/ isSavingPlan
                  \/ backupStatus = "in-progress")
    /\ (ActivationModalOpen \/ isDeletingPlan \/ restoringId # NoBackup)
          ~> ~(ActivationModalOpen \/ isDeletingPlan \/ restoringId # NoBackup)
    /\ (gwPc \in {"toggle_disableOther", "toggle_toggle", "toggle_reload"})
          ~> (confirmToggle = NoToggle)

\* a plan is being saved and deleted at once, both writes in flight
C25_Witness ==
    /\ isSavingPlan /\ isDeletingPlan
    /\ \E call \in planCalls : call.api = "deletePlanAPI"
    /\ \E call \in planCalls : call.api \in {"updatePlanAPI", "createPlanAPI"}

====
